---- MODULE Spec2Model ----
(***************************************************************************)
(* Model of the job classification engine of the scraper                   *)
(* (src/scraper/classification.py) and of the service that runs the        *)
(* scrapers: the scheduler (scheduler.py), its HTTP handlers (main.py)     *)
(* and the upsert of the scraped jobs (database.py).                       *)
(*                                                                         *)
(* The service is modelled as asyncio runs it: one action is the code a    *)
(* coroutine executes between two awaits that suspend it.                  *)
(*                                                                         *)
(* Text is modelled at character level: a string is a sequence of          *)
(* one-character strings, so that substring search, word boundaries and    *)
(* lower-casing are computed as the code computes them.                    *)
(*                                                                         *)
(* Optional values: a level or a salary band that is None is the string    *)
(* "None"; an optional phrase, years pair or integer is <<>> when None     *)
(* and <<v>> when it holds v.                                              *)
(***************************************************************************)
EXTENDS Integers, Sequences, FiniteSets, TLC

VARIABLES
    job,            \* the JobInput under classification
    pc,             \* position inside classify_job / classify_job_with_company
    title_level,    \* classify_job local
    title_match,    \* classify_job local
    years,          \* classify_job local
    salary_level,   \* classify_job local
    desc_level,     \* classify_job local
    desc_matches,   \* classify_job local
    scores,         \* classify_job local: level -> accumulated weight
    total_weight,   \* classify_job local
    signals,        \* ClassificationSignals under construction
    max_score,      \* classify_job local
    winning_level,  \* classify_job local
    confidence,     \* classify_job local: unrounded, as a fraction [num, den]
    base_result,    \* value returned by classify_job
    final_result,   \* value returned by classify_job_with_company
    years_level,    \* classify_job local: value returned by years_to_level
    salary_band,    \* value returned by get_salary_band
    frames,         \* the locals of the classify_job calls in progress
    calls,          \* the completed classify_job calls: job and result
    batch,          \* classify_jobs parameter `jobs`: the list of ScrapedJob
    index,          \* position of the for loop of classify_jobs
    classified_jobs, \* classify_jobs local
    stats,          \* classify_jobs local
    is_running,     \* ScraperScheduler.is_running
    scrape_lock,    \* ScraperScheduler._scrape_lock: holder and waiters
    tasks,          \* the coroutines of the service: position and locals
    last_results,   \* ScraperScheduler.last_results
    enabled,        \* the sources of JOB_SOURCES that are enabled
    table           \* the rows of job_listings, by (source, sourceId)

\* The state of BaseScraper.classify_jobs and of sequences of calls, which
\* a single call of classify_job_with_company leaves alone.
rest == << years_level, salary_band, frames, calls, batch, index,
             classified_jobs, stats >>

\* The state of the scraper service, which the classifier leaves alone.
service == << is_running, scrape_lock, tasks, last_results, enabled, table >>

vars == << job, pc, title_level, title_match, years, salary_level, desc_level,
           desc_matches, scores, total_weight, signals, max_score,
           winning_level, confidence, base_result, final_result, rest,
           service >>

-----------------------------------------------------------------------------
(* Types *)

ENTRY == "ENTRY"
MID == "MID"
SENIOR == "SENIOR"
EXECUTIVE == "EXECUTIVE"

\* ExperienceLevel, in declaration order (the order dict iteration follows).
ExperienceLevel == << ENTRY, MID, SENIOR, EXECUTIVE >>

LevelSet == { ExperienceLevel[i] : i \in 1..Len(ExperienceLevel) }

NoLevel == "None"

None == << >>
Some(x) == << x >>

-----------------------------------------------------------------------------
(* Signal definitions *)

\* TITLE_SIGNALS["entry"], in list order
TITLE_SIGNALS_entry ==
    << <<"i","n","t","e","r","n">>,
       <<"i","n","t","e","r","n","s","h","i","p">>,
       <<"e","n","t","r","y"," ","l","e","v","e","l">>,
       <<"e","n","t","r","y","-","l","e","v","e","l">>,
       <<"j","u","n","i","o","r">>,
       <<"a","s","s","o","c","i","a","t","e">>,
       <<"c","o","o","r","d","i","n","a","t","o","r">>,
       <<"a","s","s","i","s","t","a","n","t">>,
       <<"t","r","a","i","n","e","e">>,
       <<"a","p","p","r","e","n","t","i","c","e">>,
       <<"g","r","a","d","u","a","t","e">>,
       <<"e","a","r","l","y"," ","c","a","r","e","e","r">>,
       <<"n","e","w"," ","g","r","a","d">>,
       <<"j","r",".">>,
       <<"j","r"," ">>,
       <<"s","t","u","d","e","n","t">>,
       <<"f","e","l","l","o","w","s","h","i","p">>,
       <<"r","e","s","i","d","e","n","c","y">>,
       <<"r","e","s","i","d","e","n","t">> >>

\* TITLE_SIGNALS["mid"]
TITLE_SIGNALS_mid ==
    << <<"s","p","e","c","i","a","l","i","s","t">>,
       <<"a","n","a","l","y","s","t">>,
       <<"m","a","n","a","g","e","r">>,
       <<"l","e","a","d">>,
       <<"s","u","p","e","r","v","i","s","o","r">>,
       <<"e","x","p","e","r","i","e","n","c","e","d">>,
       <<"m","i","d","-","l","e","v","e","l">>,
       <<"m","i","d"," ","l","e","v","e","l">>,
       <<"t","e","a","m"," ","l","e","a","d">>,
       <<"p","r","o","j","e","c","t"," ","m","a","n","a","g","e","r">> >>

\* TITLE_SIGNALS["senior"]
TITLE_SIGNALS_senior ==
    << <<"s","e","n","i","o","r">>,
       <<"s","r",".">>,
       <<"s","r"," ">>,
       <<"d","i","r","e","c","t","o","r">>,
       <<"h","e","a","d"," ","o","f">>,
       <<"p","r","i","n","c","i","p","a","l">>,
       <<"s","t","a","f","f"," ","e","n","g","i","n","e","e","r">>,
       <<"s","t","a","f","f"," ","d","e","v","e","l","o","p","e","r">>,
       <<"a","r","c","h","i","t","e","c","t">>,
       <<"s","e","n","i","o","r"," ","m","a","n","a","g","e","r">>,
       <<"e","n","g","i","n","e","e","r","i","n","g"," ","m","a","n","a","g","e","r">> >>

\* TITLE_SIGNALS["executive"]
TITLE_SIGNALS_executive ==
    << <<"v","i","c","e"," ","p","r","e","s","i","d","e","n","t">>,
       <<"c","h","i","e","f"," ","e","x","e","c","u","t","i","v","e">>,
       <<"c","h","i","e","f"," ","t","e","c","h","n","o","l","o","g","y">>,
       <<"c","h","i","e","f"," ","f","i","n","a","n","c","i","a","l">>,
       <<"c","h","i","e","f"," ","o","p","e","r","a","t","i","n","g">>,
       <<"c","h","i","e","f"," ","m","a","r","k","e","t","i","n","g">>,
       <<"c","h","i","e","f"," ","i","n","f","o","r","m","a","t","i","o","n">>,
       <<"e","x","e","c","u","t","i","v","e"," ","d","i","r","e","c","t","o","r">>,
       <<"s","v","p">>,
       <<"e","v","p">>,
       <<"g","e","n","e","r","a","l"," ","m","a","n","a","g","e","r">>,
       <<"f","o","u","n","d","e","r">>,
       <<"c","o","-","f","o","u","n","d","e","r">>,
       <<"m","a","n","a","g","i","n","g"," ","d","i","r","e","c","t","o","r">> >>

\* executive signals that need word boundary matching
EXECUTIVE_WORD_BOUNDARY_SIGNALS ==
    << <<"v","p">>,
       <<"c","t","o">>,
       <<"c","f","o">>,
       <<"c","e","o">>,
       <<"c","o","o">>,
       <<"c","m","o">>,
       <<"c","i","o">>,
       <<"p","r","e","s","i","d","e","n","t">>,
       <<"p","a","r","t","n","e","r">>,
       <<"g","m">> >>

\* phrases in which 'senior' is not a seniority indicator
SENIOR_BLOCKLIST ==
    << <<"s","e","n","i","o","r"," ","l","i","v","i","n","g">>,
       <<"s","e","n","i","o","r"," ","c","a","r","e">>,
       <<"s","e","n","i","o","r"," ","c","e","n","t","e","r">>,
       <<"s","e","n","i","o","r"," ","c","o","m","m","u","n","i","t","y">>,
       <<"s","e","n","i","o","r"," ","s","e","r","v","i","c","e","s">>,
       <<"s","e","n","i","o","r"," ","c","i","t","i","z","e","n">>,
       <<"s","e","n","i","o","r"," ","h","o","u","s","i","n","g">>,
       <<"s","e","n","i","o","r"," ","r","e","s","i","d","e","n","c","e">>,
       <<"s","e","n","i","o","r"," ","h","o","m","e">>,
       <<"s","e","n","i","o","r"," ","w","e","l","l","n","e","s","s">> >>

\* retail/service companies where 'manager' is often entry-level
RETAIL_SERVICE_COMPANIES ==
    << <<"m","c","d","o","n","a","l","d">>,
       <<"b","u","r","g","e","r"," ","k","i","n","g">>,
       <<"w","e","n","d","y">>,
       <<"t","a","c","o"," ","b","e","l","l">>,
       <<"k","f","c">>,
       <<"s","u","b","w","a","y">>,
       <<"s","t","a","r","b","u","c","k","s">>,
       <<"d","u","n","k","i","n">>,
       <<"c","h","i","p","o","t","l","e">>,
       <<"c","h","i","c","k","-","f","i","l","-","a">>,
       <<"w","a","l","m","a","r","t">>,
       <<"t","a","r","g","e","t">>,
       <<"c","o","s","t","c","o">>,
       <<"c","v","s">>,
       <<"w","a","l","g","r","e","e","n","s">>,
       <<"d","o","l","l","a","r"," ","g","e","n","e","r","a","l">>,
       <<"d","o","l","l","a","r"," ","t","r","e","e">>,
       <<"f","a","m","i","l","y"," ","d","o","l","l","a","r">>,
       <<"p","i","z","z","a"," ","h","u","t">>,
       <<"d","o","m","i","n","o">>,
       <<"p","a","p","a"," ","j","o","h","n">> >>

\* DESCRIPTION_SIGNALS["entry"]
DESCRIPTION_SIGNALS_entry ==
    << <<"n","o"," ","e","x","p","e","r","i","e","n","c","e"," ","r","e","q","u","i","r","e","d">>,
       <<"n","o"," ","e","x","p","e","r","i","e","n","c","e"," ","n","e","c","e","s","s","a","r","y">>,
       <<"n","o"," ","e","x","p","e","r","i","e","n","c","e"," ","n","e","e","d","e","d">>,
       <<"n","o"," ","p","r","i","o","r"," ","e","x","p","e","r","i","e","n","c","e">>,
       <<"e","n","t","r","y"," ","l","e","v","e","l"," ","p","o","s","i","t","i","o","n">>,
       <<"e","n","t","r","y","-","l","e","v","e","l"," ","p","o","s","i","t","i","o","n">>,
       <<"r","e","c","e","n","t"," ","g","r","a","d","u","a","t","e">>,
       <<"f","r","e","s","h"," ","g","r","a","d","u","a","t","e">>,
       <<"w","i","l","l"," ","t","r","a","i","n">>,
       <<"t","r","a","i","n","i","n","g"," ","p","r","o","v","i","d","e","d">>,
       <<"l","e","a","r","n"," ","o","n"," ","t","h","e"," ","j","o","b">> >>

\* DESCRIPTION_SIGNALS["mid"]
DESCRIPTION_SIGNALS_mid ==
    << <<"m","a","n","a","g","e"," ","a"," ","t","e","a","m">>,
       <<"l","e","a","d"," ","a"," ","t","e","a","m">>,
       <<"t","e","a","m"," ","m","a","n","a","g","e","m","e","n","t">>,
       <<"2","-","3"," ","y","e","a","r","s">>,
       <<"3","-","5"," ","y","e","a","r","s">>,
       <<"p","r","o","v","e","n"," ","t","r","a","c","k"," ","r","e","c","o","r","d">> >>

\* DESCRIPTION_SIGNALS["senior"]
DESCRIPTION_SIGNALS_senior ==
    << <<"r","e","p","o","r","t"," ","t","o"," ","t","h","e"," ","c","e","o">>,
       <<"r","e","p","o","r","t"," ","t","o"," ","t","h","e"," ","c","t","o">>,
       <<"r","e","p","o","r","t"," ","t","o"," ","t","h","e"," ","c","f","o">>,
       <<"r","e","p","o","r","t","s"," ","t","o"," ","c","e","o">>,
       <<"r","e","p","o","r","t","s"," ","t","o"," ","c","t","o">>,
       <<"r","e","p","o","r","t"," ","d","i","r","e","c","t","l","y"," ","t","o">>,
       <<"e","x","t","e","n","s","i","v","e"," ","e","x","p","e","r","i","e","n","c","e">>,
       <<"e","x","p","e","r","t"," ","l","e","v","e","l">>,
       <<"d","e","e","p"," ","e","x","p","e","r","t","i","s","e">>,
       <<"7","+"," ","y","e","a","r","s">>,
       <<"8","+"," ","y","e","a","r","s">>,
       <<"1","0","+"," ","y","e","a","r","s">> >>

\* DESCRIPTION_SIGNALS["executive"]
DESCRIPTION_SIGNALS_executive ==
    << <<"b","o","a","r","d"," ","o","f"," ","d","i","r","e","c","t","o","r","s">>,
       <<"c","-","s","u","i","t","e">>,
       <<"e","x","e","c","u","t","i","v","e"," ","t","e","a","m">>,
       <<"p","&","l"," ","r","e","s","p","o","n","s","i","b","i","l","i","t","y">>,
       <<"p","r","o","f","i","t"," ","a","n","d"," ","l","o","s","s">>,
       <<"c","o","m","p","a","n","y"," ","s","t","r","a","t","e","g","y">>,
       <<"o","r","g","a","n","i","z","a","t","i","o","n","a","l"," ","s","t","r","a","t","e","g","y">>,
       <<"1","5","+"," ","y","e","a","r","s">>,
       <<"2","0","+"," ","y","e","a","r","s">> >>

-----------------------------------------------------------------------------
(* Text primitives: str.lower, the `in` operator, and the regex atoms used *)

\* str.lower() on one character (ASCII letters).
LowerChar(c) ==
    CASE c = "A" -> "a" [] c = "B" -> "b" [] c = "C" -> "c" [] c = "D" -> "d"
      [] c = "E" -> "e" [] c = "F" -> "f" [] c = "G" -> "g" [] c = "H" -> "h"
      [] c = "I" -> "i" [] c = "J" -> "j" [] c = "K" -> "k" [] c = "L" -> "l"
      [] c = "M" -> "m" [] c = "N" -> "n" [] c = "O" -> "o" [] c = "P" -> "p"
      [] c = "Q" -> "q" [] c = "R" -> "r" [] c = "S" -> "s" [] c = "T" -> "t"
      [] c = "U" -> "u" [] c = "V" -> "v" [] c = "W" -> "w" [] c = "X" -> "x"
      [] c = "Y" -> "y" [] c = "Z" -> "z" [] OTHER -> c

RECURSIVE Lower(_)
Lower(text) ==
    IF text = << >> THEN << >>
    ELSE << LowerChar(Head(text)) >> \o Lower(Tail(text))

\* The literal lit occurs in text starting at index i.
LitAt(text, i, lit) ==
    /\ i >= 1
    /\ i + Len(lit) - 1 <= Len(text)
    /\ \A k \in 1..Len(lit) : text[i + k - 1] = lit[k]

\* Python's `phrase in text` for strings.
Contains(text, phrase) ==
    \E i \in 1..(Len(text) - Len(phrase) + 1) : LitAt(text, i, phrase)

Digits == { "0", "1", "2", "3", "4", "5", "6", "7", "8", "9" }

Letters ==
    { "a", "b", "c", "d", "e", "f", "g", "h", "i", "j", "k", "l", "m",
      "n", "o", "p", "q", "r", "s", "t", "u", "v", "w", "x", "y", "z",
      "A", "B", "C", "D", "E", "F", "G", "H", "I", "J", "K", "L", "M",
      "N", "O", "P", "Q", "R", "S", "T", "U", "V", "W", "X", "Y", "Z" }

\* regex \w
IsWordChar(c) == c \in Letters \/ c \in Digits \/ c = "_"

\* regex \d at index i
IsDigitAt(text, i) == i >= 1 /\ i <= Len(text) /\ text[i] \in Digits

\* regex \s
IsSpace(c) == c \in { " ", "\t", "\n", "\r", "\f" }

\* regex \b between index i-1 and index i (1 <= i <= Len(text) + 1)
WordBoundaryAt(text, i) ==
    LET before == i > 1 /\ IsWordChar(text[i - 1])
        after  == i <= Len(text) /\ IsWordChar(text[i])
    IN  before # after

\* Index reached by a greedy \s* starting at index i.
RECURSIVE SkipSpaces(_, _)
SkipSpaces(text, i) ==
    IF i <= Len(text) /\ IsSpace(text[i]) THEN SkipSpaces(text, i + 1) ELSE i

DigitValue(c) ==
    CASE c = "0" -> 0 [] c = "1" -> 1 [] c = "2" -> 2 [] c = "3" -> 3
      [] c = "4" -> 4 [] c = "5" -> 5 [] c = "6" -> 6 [] c = "7" -> 7
      [] c = "8" -> 8 [] c = "9" -> 9

\* Length of the greedy match of \d{1,2} at index i (a digit stands at i).
DigitRun(text, i) == IF IsDigitAt(text, i + 1) THEN 2 ELSE 1

\* int() of the n digits at index i, n in {1, 2}.
IntAt(text, i, n) ==
    IF n = 2 THEN 10 * DigitValue(text[i]) + DigitValue(text[i + 1])
             ELSE DigitValue(text[i])

\* Least element of a non-empty set of integers.
Least(S) == CHOOSE x \in S : \A y \in S : x <= y

\* First phrase of a list (in list order) that occurs in text, as an optional
\* phrase: the `for signal in list: if signal in text: return signal` loops.
FirstContained(list, text) ==
    LET idx == { i \in 1..Len(list) : Contains(text, list[i]) }
    IN  IF idx = {} THEN None ELSE Some(list[Least(idx)])

\* The phrases of a list that occur in text, in list order.
AllContained(list, text) == SelectSeq(list, LAMBDA p : Contains(text, p))

\* any(phrase in text for phrase in list)
AnyContained(list, text) == \E i \in 1..Len(list) : Contains(text, list[i])

-----------------------------------------------------------------------------
(* Helper functions *)

\* Faulty variant of is_reasonable_years: no upper limit.
is_reasonable_years_unbounded(y) == 0 <= y

\* Validate years are reasonable (0-25 range)
is_reasonable_years(y) == 0 <= y /\ y <= 25

\* r'no experience (?:required|necessary|needed)' or r'entry.?level'
NoExperiencePattern(t) ==
    \/ Contains(t, <<"n","o"," ","e","x","p","e","r","i","e","n","c","e"," ","r","e","q","u","i","r","e","d">>)
    \/ Contains(t, <<"n","o"," ","e","x","p","e","r","i","e","n","c","e"," ","n","e","c","e","s","s","a","r","y">>)
    \/ Contains(t, <<"n","o"," ","e","x","p","e","r","i","e","n","c","e"," ","n","e","e","d","e","d">>)
    \/ \E i \in 1..Len(t) :
          /\ LitAt(t, i, <<"e","n","t","r","y">>)
          /\ \/ LitAt(t, i + 5, <<"l","e","v","e","l">>)
             \/ /\ i + 5 <= Len(t)
                /\ t[i + 5] # "\n"
                /\ LitAt(t, i + 6, <<"l","e","v","e","l">>)

YearWord == <<"y","e","a","r">>

\* Index after an optional literal at index i.
SkipOptional(t, i, lit) == IF LitAt(t, i, lit) THEN i + Len(lit) ELSE i

\* r'(\d{1,2})\s*(?:to|-)\s*(\d{1,2})\s*(?:\+)?\s*years?\s*(?:of\s+)?(?:experience|exp)?'
\* matched at start index i: the groups << X, Y >>, or << >> for no match.
\* Each quantifier is greedy and none can give back a character that the
\* next atom accepts, so the match at a start index is unique.
RangeMatchAt(t, i) ==
    IF ~IsDigitAt(t, i) THEN << >>
    ELSE
      LET n1 == DigitRun(t, i)
          j  == SkipSpaces(t, i + n1)
          k0 == IF LitAt(t, j, <<"t","o">>) THEN j + 2
                ELSE IF LitAt(t, j, <<"-">>) THEN j + 1
                ELSE 0
          k  == SkipSpaces(t, k0)
      IN  IF k0 = 0 \/ ~IsDigitAt(t, k) THEN << >>
          ELSE
            LET n2 == DigitRun(t, k)
                m  == SkipSpaces(t, SkipOptional(t, SkipSpaces(t, k + n2), <<"+">>))
            IN  IF LitAt(t, m, YearWord)
                THEN << IntAt(t, i, n1), IntAt(t, k, n2) >>
                ELSE << >>

\* r'(\d{1,2})\+\s*years?\s*(?:of\s+)?(?:experience|exp)?' at start index i:
\* the group << X >>, or << >>.
PlusMatchAt(t, i) ==
    IF ~IsDigitAt(t, i) THEN << >>
    ELSE
      LET n == DigitRun(t, i)
      IN  IF /\ LitAt(t, i + n, <<"+">>)
             /\ LitAt(t, SkipSpaces(t, i + n + 1), YearWord)
          THEN << IntAt(t, i, n) >>
          ELSE << >>

\* Index after the prefix (?:minimum|at least|min\.?) at index i, 0 when the
\* prefix does not match there.
MinPrefixEnd(t, i) ==
    IF LitAt(t, i, <<"m","i","n","i","m","u","m">>) THEN i + 7
    ELSE IF LitAt(t, i, <<"a","t"," ","l","e","a","s","t">>) THEN i + 8
    ELSE IF LitAt(t, i, <<"m","i","n">>) THEN SkipOptional(t, i + 3, <<".">>)
    ELSE 0

\* r'(?:minimum|at least|min\.?)\s*(\d{1,2})\s*years?\s*(?:of\s+)?(?:experience|exp)?'
MinMatchAt(t, i) ==
    LET e == MinPrefixEnd(t, i)
        d == SkipSpaces(t, e)
    IN  IF e = 0 \/ ~IsDigitAt(t, d) THEN << >>
        ELSE
          LET n == DigitRun(t, d)
          IN  IF LitAt(t, SkipSpaces(t, d + n), YearWord)
              THEN << IntAt(t, d, n) >>
              ELSE << >>

\* r'(\d{1,2})\s*years?\s*(?:of\s+)?experience'
SimpleMatchAt(t, i) ==
    IF ~IsDigitAt(t, i) THEN << >>
    ELSE
      LET n  == DigitRun(t, i)
          y  == SkipSpaces(t, i + n)
          a  == SkipSpaces(t, SkipOptional(t, y + 4, <<"s">>))
          b  == IF LitAt(t, a, <<"o","f">>) /\ SkipSpaces(t, a + 2) > a + 2
                THEN SkipSpaces(t, a + 2)
                ELSE a
      IN  IF /\ LitAt(t, y, YearWord)
             /\ LitAt(t, b, <<"e","x","p","e","r","i","e","n","c","e">>)
          THEN << IntAt(t, i, n) >>
          ELSE << >>

\* The groups of the match of one of the four patterns at start index i.
MatchAt(t, i, pattern) ==
    CASE pattern = "range" -> RangeMatchAt(t, i)
      [] pattern = "plus" -> PlusMatchAt(t, i)
      [] pattern = "min" -> MinMatchAt(t, i)
      [] pattern = "simple" -> SimpleMatchAt(t, i)

\* re.search: the groups of the leftmost match of a pattern, << >> if none.
Search(t, pattern) ==
    LET starts == { i \in 1..Len(t) : MatchAt(t, i, pattern) # << >> }
    IN  IF starts = {} THEN << >> ELSE MatchAt(t, Least(starts), pattern)

\* Faulty variant of parse_years_required: the 'X+ years' pattern is tried
\* before the 'X-Y years' pattern.
parse_years_required_plus_first(text) ==
    LET lower_text   == Lower(text)
        range_match  == Search(lower_text, "range")
        plus_match   == Search(lower_text, "plus")
        min_match    == Search(lower_text, "min")
        simple_match == Search(lower_text, "simple")
    IN  IF NoExperiencePattern(lower_text)
          THEN Some([min |-> 0, max |-> 0])
        ELSE IF plus_match # << >> /\ is_reasonable_years(plus_match[1])
          THEN Some([min |-> plus_match[1],
                     max |-> IF plus_match[1] + 5 < 25 THEN plus_match[1] + 5 ELSE 25])
        ELSE IF /\ range_match # << >>
                /\ is_reasonable_years(range_match[1])
                /\ is_reasonable_years(range_match[2])
          THEN Some([min |-> range_match[1], max |-> range_match[2]])
        ELSE IF min_match # << >> /\ is_reasonable_years(min_match[1])
          THEN Some([min |-> min_match[1],
                     max |-> IF min_match[1] + 3 < 25 THEN min_match[1] + 3 ELSE 25])
        ELSE IF simple_match # << >> /\ is_reasonable_years(simple_match[1])
          THEN Some([min |-> simple_match[1], max |-> simple_match[1]])
        ELSE None

\* Parse years of experience from job description: Some([min, max]) or None.
parse_years_required(text) ==
    LET lower_text   == Lower(text)
        range_match  == Search(lower_text, "range")
        plus_match   == Search(lower_text, "plus")
        min_match    == Search(lower_text, "min")
        simple_match == Search(lower_text, "simple")
    IN  IF NoExperiencePattern(lower_text)
          THEN Some([min |-> 0, max |-> 0])
        ELSE IF /\ range_match # << >>
                /\ is_reasonable_years(range_match[1])
                /\ is_reasonable_years(range_match[2])
          THEN Some([min |-> range_match[1], max |-> range_match[2]])
        ELSE IF plus_match # << >> /\ is_reasonable_years(plus_match[1])
          THEN Some([min |-> plus_match[1],
                     max |-> IF plus_match[1] + 5 < 25 THEN plus_match[1] + 5 ELSE 25])
        ELSE IF min_match # << >> /\ is_reasonable_years(min_match[1])
          THEN Some([min |-> min_match[1],
                     max |-> IF min_match[1] + 3 < 25 THEN min_match[1] + 3 ELSE 25])
        ELSE IF simple_match # << >> /\ is_reasonable_years(simple_match[1])
          THEN Some([min |-> simple_match[1], max |-> simple_match[1]])
        ELSE None

\* Faulty variant of years_to_level: the average is an integer division.
years_to_level_floor(y) ==
    IF (y.min + y.max) \div 2 <= 2 THEN ENTRY
    ELSE IF (y.min + y.max) \div 2 <= 5 THEN MID
    ELSE IF (y.min + y.max) \div 2 <= 10 THEN SENIOR
    ELSE EXECUTIVE

\* Map years of experience to experience level; avg = (min + max) / 2 is
\* compared without truncation, as 2 * avg = min + max.
years_to_level(y) ==
    IF y.min + y.max <= 2 * 2 THEN ENTRY
    ELSE IF y.min + y.max <= 2 * 5 THEN MID
    ELSE IF y.min + y.max <= 2 * 10 THEN SENIOR
    ELSE EXECUTIVE

\* Python truthiness of an Optional[int]: None and 0 are both false.
Truthy(opt) == opt # None /\ opt[1] # 0

\* Twice the point estimate `salary` of salary_to_level / get_salary_band:
\* (salary_min + salary_max) / 2 if both are truthy, else
\* (salary_min or salary_max).  Only evaluated when one of them is truthy.
SalaryTimes2(salary_min, salary_max) ==
    IF Truthy(salary_min) /\ Truthy(salary_max)
      THEN salary_min[1] + salary_max[1]
    ELSE IF Truthy(salary_min) THEN 2 * salary_min[1]
    ELSE 2 * salary_max[1]

\* Map salary to experience level (adjusted for tech)
salary_to_level(salary_min, salary_max) ==
    IF ~Truthy(salary_min) /\ ~Truthy(salary_max) THEN NoLevel
    ELSE LET s2 == SalaryTimes2(salary_min, salary_max)
         IN  IF s2 < 2 * 60000 THEN ENTRY
             ELSE IF s2 < 2 * 100000 THEN MID
             ELSE IF s2 < 2 * 200000 THEN SENIOR
             ELSE EXECUTIVE

\* Faulty variant of get_salary_band: the brackets include their upper limit.
get_salary_band_inclusive(salary_min, salary_max) ==
    IF ~Truthy(salary_min) /\ ~Truthy(salary_max) THEN "None"
    ELSE LET s2 == SalaryTimes2(salary_min, salary_max)
         IN  IF s2 <= 2 * 60000 THEN "<$60k (entry)"
             ELSE IF s2 <= 2 * 100000 THEN "$60k-$100k (mid)"
             ELSE IF s2 <= 2 * 200000 THEN "$100k-$200k (senior)"
             ELSE ">$200k (executive)"

\* Get salary band description
get_salary_band(salary_min, salary_max) ==
    IF ~Truthy(salary_min) /\ ~Truthy(salary_max) THEN "None"
    ELSE LET s2 == SalaryTimes2(salary_min, salary_max)
         IN  IF s2 < 2 * 60000 THEN "<$60k (entry)"
             ELSE IF s2 < 2 * 100000 THEN "$60k-$100k (mid)"
             ELSE IF s2 < 2 * 200000 THEN "$100k-$200k (senior)"
             ELSE ">$200k (executive)"

\* Check if title contains a blocklisted 'senior' phrase
is_senior_blocklisted(title) == AnyContained(SENIOR_BLOCKLIST, Lower(title))

\* Check if company is retail/service; company is an optional string.
is_retail_service_company(company) ==
    IF company = None \/ company[1] = << >> THEN FALSE
    ELSE AnyContained(RETAIL_SERVICE_COMPANIES, Lower(company[1]))

\* Faulty variant of matches_with_word_boundary: plain substring search, without \b.
matches_as_substring(text, signal) == Contains(Lower(text), signal)

\* Check if a word boundary signal matches in text: rf'\b{signal}\b' with
\* re.IGNORECASE (the signals are lower-case).
matches_with_word_boundary(text, signal) ==
    LET folded == Lower(text)
    IN  \E i \in 1..(Len(text) - Len(signal) + 1) :
            /\ LitAt(folded, i, signal)
            /\ WordBoundaryAt(text, i)
            /\ WordBoundaryAt(text, i + Len(signal))

\* First word-boundary signal (in list order) matching text, optional.
FirstWordBoundary(list, text) ==
    LET idx == { i \in 1..Len(list) : matches_with_word_boundary(text, list[i]) }
    IN  IF idx = {} THEN None ELSE Some(list[Least(idx)])

CareContextMarker ==
    <<"s","e","n","i","o","r"," ","(","c","a","r","e"," ","c","o","n","t","e","x","t",")">>

\* Faulty variant of analyze_title_signals: the MID phrases are scanned before the
\* SENIOR and ENTRY phrases.
analyze_title_signals_mid_first(title) ==
    LET lower_title == Lower(title)
        entry     == FirstContained(TITLE_SIGNALS_entry, lower_title)
        boundary  == FirstWordBoundary(EXECUTIVE_WORD_BOUNDARY_SIGNALS, lower_title)
        executive == FirstContained(TITLE_SIGNALS_executive, lower_title)
        senior    == FirstContained(TITLE_SIGNALS_senior, lower_title)
        mid       == FirstContained(TITLE_SIGNALS_mid, lower_title)
    IN  IF is_senior_blocklisted(title)
          THEN IF entry # None THEN << ENTRY, entry >>
               ELSE << MID, Some(CareContextMarker) >>
        ELSE IF boundary # None THEN << EXECUTIVE, boundary >>
        ELSE IF executive # None THEN << EXECUTIVE, executive >>
        ELSE IF mid # None THEN << MID, mid >>
        ELSE IF senior # None THEN << SENIOR, senior >>
        ELSE IF entry # None THEN << ENTRY, entry >>
        ELSE << NoLevel, None >>

\* Faulty variant of analyze_title_signals: the senior-care blocklist is not
\* consulted.
analyze_title_signals_no_blocklist(title) ==
    LET lower_title == Lower(title)
        entry     == FirstContained(TITLE_SIGNALS_entry, lower_title)
        boundary  == FirstWordBoundary(EXECUTIVE_WORD_BOUNDARY_SIGNALS, lower_title)
        executive == FirstContained(TITLE_SIGNALS_executive, lower_title)
        senior    == FirstContained(TITLE_SIGNALS_senior, lower_title)
        mid       == FirstContained(TITLE_SIGNALS_mid, lower_title)
    IN  IF boundary # None THEN << EXECUTIVE, boundary >>
        ELSE IF executive # None THEN << EXECUTIVE, executive >>
        ELSE IF senior # None THEN << SENIOR, senior >>
        ELSE IF entry # None THEN << ENTRY, entry >>
        ELSE IF mid # None THEN << MID, mid >>
        ELSE << NoLevel, None >>

\* Analyze job title for experience level signals: << level, match >>.
analyze_title_signals(title) ==
    LET lower_title == Lower(title)
        entry     == FirstContained(TITLE_SIGNALS_entry, lower_title)
        boundary  == FirstWordBoundary(EXECUTIVE_WORD_BOUNDARY_SIGNALS, lower_title)
        executive == FirstContained(TITLE_SIGNALS_executive, lower_title)
        senior    == FirstContained(TITLE_SIGNALS_senior, lower_title)
        mid       == FirstContained(TITLE_SIGNALS_mid, lower_title)
    IN  IF is_senior_blocklisted(title)
          THEN IF entry # None THEN << ENTRY, entry >>
               ELSE << MID, Some(CareContextMarker) >>
        ELSE IF boundary # None THEN << EXECUTIVE, boundary >>
        ELSE IF executive # None THEN << EXECUTIVE, executive >>
        ELSE IF senior # None THEN << SENIOR, senior >>
        ELSE IF entry # None THEN << ENTRY, entry >>
        ELSE IF mid # None THEN << MID, mid >>
        ELSE << NoLevel, None >>

\* Faulty variant of analyze_description_signals: the lower categories are
\* scanned even when a higher one has set the level.
analyze_description_signals_all(description) ==
    LET lower_desc == Lower(description)
        executive == AllContained(DESCRIPTION_SIGNALS_executive, lower_desc)
        senior    == AllContained(DESCRIPTION_SIGNALS_senior, lower_desc)
        entry     == AllContained(DESCRIPTION_SIGNALS_entry, lower_desc)
        mid       == AllContained(DESCRIPTION_SIGNALS_mid, lower_desc)
        matches   == executive \o senior \o entry \o mid
    IN  IF executive # << >> THEN << EXECUTIVE, matches >>
        ELSE IF senior # << >> THEN << SENIOR, matches >>
        ELSE IF entry # << >> THEN << ENTRY, matches >>
        ELSE IF mid # << >> THEN << MID, matches >>
        ELSE << NoLevel, << >> >>

\* Faulty variant of analyze_description_signals: the level is set and the
\* matching phrases are not collected.
analyze_description_signals_unrecorded(description) ==
    LET lower_desc == Lower(description)
    IN  IF AnyContained(DESCRIPTION_SIGNALS_executive, lower_desc) THEN << EXECUTIVE, << >> >>
        ELSE IF AnyContained(DESCRIPTION_SIGNALS_senior, lower_desc) THEN << SENIOR, << >> >>
        ELSE IF AnyContained(DESCRIPTION_SIGNALS_entry, lower_desc) THEN << ENTRY, << >> >>
        ELSE IF AnyContained(DESCRIPTION_SIGNALS_mid, lower_desc) THEN << MID, << >> >>
        ELSE << NoLevel, << >> >>

\* Analyze description for experience level signals: << level, matches >>.
\* A category is scanned only while no level has been set, and a scanned
\* category sets the level exactly when one of its phrases occurs.
analyze_description_signals(description) ==
    LET lower_desc == Lower(description)
        executive == AllContained(DESCRIPTION_SIGNALS_executive, lower_desc)
        senior    == AllContained(DESCRIPTION_SIGNALS_senior, lower_desc)
        entry     == AllContained(DESCRIPTION_SIGNALS_entry, lower_desc)
        mid       == AllContained(DESCRIPTION_SIGNALS_mid, lower_desc)
    IN  IF executive # << >> THEN << EXECUTIVE, executive >>
        ELSE IF senior # << >> THEN << SENIOR, senior >>
        ELSE IF entry # << >> THEN << ENTRY, entry >>
        ELSE IF mid # << >> THEN << MID, mid >>
        ELSE << NoLevel, << >> >>

\* Map experience level to audience tags (a list of one tag; lists of tags
\* are modelled as sets, their order is not significant).
level_to_audience_tags(level) ==
    CASE level = ENTRY -> { "genz" }
      [] level = MID -> { "mid_career" }
      [] level = SENIOR -> { "senior" }
      [] level = EXECUTIVE -> { "executive" }
      [] OTHER -> { "mid_career" }

-----------------------------------------------------------------------------
(* Main classification function *)

\* Scoring weights of classify_job
TitleWeight == 10
YearsWeight == 8
SalaryWeight == 5
DescriptionWeight == 3

ZeroScores == [ l \in LevelSet |-> 0 ]

\* Faulty variant of AddScore: `scores[level] = w` in place of `scores[level] += w`.
AddScoreAssign(sc, level, w) == [ sc EXCEPT ![level] = w ]

AddScore(sc, level, w) == [ sc EXCEPT ![level] = @ + w ]

\* The loop `for level, score in scores.items(): if score > max_score: ...`
\* from index i on, with the running << max_score, winning_level >>.
RECURSIVE WinnerLoop(_, _, _, _)
WinnerLoop(sc, i, max, win) ==
    IF i > Len(ExperienceLevel) THEN << max, win >>
    ELSE IF sc[ExperienceLevel[i]] > max
      THEN WinnerLoop(sc, i + 1, sc[ExperienceLevel[i]], ExperienceLevel[i])
    ELSE WinnerLoop(sc, i + 1, max, win)

\* Faulty variant of DetermineWinner: `score >= max_score` in the loop, so that
\* the last level reaching the maximum keeps it.
RECURSIVE WinnerLoopLast(_, _, _, _)
WinnerLoopLast(sc, i, max, win) ==
    IF i > Len(ExperienceLevel) THEN << max, win >>
    ELSE IF sc[ExperienceLevel[i]] >= max /\ sc[ExperienceLevel[i]] > 0
      THEN WinnerLoopLast(sc, i + 1, sc[ExperienceLevel[i]], ExperienceLevel[i])
    ELSE WinnerLoopLast(sc, i + 1, max, win)

DetermineWinnerLast(sc) == WinnerLoopLast(sc, 1, 0, MID)

\* max_score = 0, winning_level = MID (default), then the loop.
DetermineWinner(sc) == WinnerLoop(sc, 1, 0, MID)

\* sum(1 for s in scores.values() if s > 0)
SignalCount(sc) == Cardinality({ l \in LevelSet : sc[l] > 0 })

\* Confidence as an exact fraction [num, den].
Frac(n, d) == [ num |-> n, den |-> d ]

FracLess(a, b) == a.num * b.den < b.num * a.den

\* Faulty variant of TimesNineTenths: `confidence /= 0.9`.
DividedByNineTenths(c) == Frac(10 * c.num, 9 * c.den)

\* confidence *= 0.9
TimesNineTenths(c) == Frac(9 * c.num, 10 * c.den)

\* Faulty variant of ComputeConfidence: confidence 0 when nothing fired.
ComputeConfidenceNoFloor(sc, max, total) ==
    IF total = 0 THEN Frac(0, 1)
    ELSE IF SignalCount(sc) = 1 THEN TimesNineTenths(Frac(max, total))
    ELSE Frac(max, total)

\* Faulty variant of ComputeConfidence: the division is not guarded by
\* `if total_weight == 0`.
ComputeConfidenceUnguarded(sc, max, total) ==
    IF SignalCount(sc) = 1 THEN TimesNineTenths(Frac(max, total))
    ELSE Frac(max, total)

\* Calculate confidence (0-1)
ComputeConfidence(sc, max, total) ==
    IF total = 0 THEN Frac(3, 10)
    ELSE IF SignalCount(sc) = 1 THEN TimesNineTenths(Frac(max, total))
    ELSE Frac(max, total)

\* round(confidence, 2), in hundredths (ties to the even hundredth).
Round2(c) ==
    LET q == (100 * c.num) \div c.den
        r == (100 * c.num) % c.den
    IN  IF 2 * r < c.den THEN q
        ELSE IF 2 * r > c.den THEN q + 1
        ELSE IF q % 2 = 0 THEN q ELSE q + 1

\* sorted([(level, score) ... if score > 0], key=score, reverse=True): the
\* levels with a nonzero score, by descending score; the sort is stable, so
\* equal scores keep declaration order.
RECURSIVE SortedLevels(_, _)
SortedLevels(sc, left) ==
    IF left = {} THEN << >>
    ELSE LET best == { i \in left : \A j \in left :
                         sc[ExperienceLevel[i]] >= sc[ExperienceLevel[j]] }
             top  == Least(best)
         IN  << ExperienceLevel[top] >> \o SortedLevels(sc, left \ { top })

NonzeroLevels(sc) == { i \in 1..Len(ExperienceLevel) : sc[ExperienceLevel[i]] > 0 }

\* Faulty variant of AudienceTags: the second level's tags replace the winner's.
AudienceTagsReplaced(sc, win, conf, total) ==
    LET sorted_levels == SortedLevels(sc, NonzeroLevels(sc))
    IN  IF /\ FracLess(conf, Frac(1, 2))
           /\ total > 0
           /\ Len(sorted_levels) >= 2
           /\ sc[sorted_levels[1]] - sc[sorted_levels[2]] <= 3
        THEN level_to_audience_tags(sorted_levels[2])
        ELSE level_to_audience_tags(win)

\* Faulty variant of AudienceTags: `confidence <= 0.5`.
AudienceTagsAtHalf(sc, win, conf, total) ==
    LET sorted_levels == SortedLevels(sc, NonzeroLevels(sc))
    IN  IF /\ ~FracLess(Frac(1, 2), conf)
           /\ total > 0
           /\ Len(sorted_levels) >= 2
           /\ sc[sorted_levels[1]] - sc[sorted_levels[2]] <= 3
        THEN level_to_audience_tags(win) \cup level_to_audience_tags(sorted_levels[2])
        ELSE level_to_audience_tags(win)

\* Faulty variant of AudienceTags: the two highest scores must differ by at
\* most 1.
AudienceTagsNarrowGap(sc, win, conf, total) ==
    LET sorted_levels == SortedLevels(sc, NonzeroLevels(sc))
    IN  IF /\ FracLess(conf, Frac(1, 2))
           /\ total > 0
           /\ Len(sorted_levels) >= 2
           /\ sc[sorted_levels[1]] - sc[sorted_levels[2]] <= 1
        THEN level_to_audience_tags(win) \cup level_to_audience_tags(sorted_levels[2])
        ELSE level_to_audience_tags(win)

\* Determine audience tags, with dual-tagging of ambiguous cases.
AudienceTags(sc, win, conf, total) ==
    LET sorted_levels == SortedLevels(sc, NonzeroLevels(sc))
    IN  IF /\ FracLess(conf, Frac(1, 2))
           /\ total > 0
           /\ Len(sorted_levels) >= 2
           /\ sc[sorted_levels[1]] - sc[sorted_levels[2]] <= 3
        THEN level_to_audience_tags(win) \cup level_to_audience_tags(sorted_levels[2])
        ELSE level_to_audience_tags(win)

EmptySignals ==
    [ title_match |-> None, years_required |-> None,
      salary_band |-> "None", description_signals |-> << >> ]

NoResult == [ experience_level |-> NoLevel, audience_tags |-> {},
              confidence |-> 0, signals |-> EmptySignals ]

-----------------------------------------------------------------------------
(* Inputs *)

\* Largest number of fragments in a title given to analyze_title_signals.
MaxTitleFrags == 2

\* Largest number of sentences in a job description.
MaxDescFrags == 2

\* Salaries are 0, 50000, ..., MaxSalaryK * 50000.
MaxSalaryK == 4

\* Pieces of job titles.  A title handed to analyze_title_signals is the
\* concatenation of at most MaxTitleFrags of them: 'Senior Living ' +
\* 'Community Coordinator', 'VP' + ' of Engineering', 's' + 'VP', ...
TitleFragments ==
    << <<"S","e","n","i","o","r"," ","L","i","v","i","n","g"," ">>,
      <<"S","e","n","i","o","r"," ">>,
      <<"C","o","m","m","u","n","i","t","y"," ","C","o","o","r","d","i","n","a","t","o","r">>,
      <<"A","n","a","l","y","s","t">>,
      <<"V","P">>,
      <<" ","o","f"," ","E","n","g","i","n","e","e","r","i","n","g">>,
      <<"s">>,
      <<"c","f","o">>,
      <<"P","a","r","t","n","e","r">>,
      <<"s","h","i","p">>,
      <<" ">>,
      <<"M","a","n","a","g","e","r">>,
      <<"I","n","t","e","r","n">>,
      <<"G","e","n","e","r","a","l"," ">> >>

\* Titles of the jobs handed to classify_job: '', 'Intern', 'Store Manager',
\* 'Senior Analyst', 'VP of Sales', 'Senior Living Aide', 'General Manager'.
JobTitles ==
    { <<>>,
      <<"I","n","t","e","r","n">>,
      <<"S","t","o","r","e"," ","M","a","n","a","g","e","r">>,
      <<"S","e","n","i","o","r"," ","A","n","a","l","y","s","t">>,
      <<"V","P"," ","o","f"," ","S","a","l","e","s">>,
      <<"S","e","n","i","o","r"," ","L","i","v","i","n","g"," ","A","i","d","e">>,
      <<"G","e","n","e","r","a","l"," ","M","a","n","a","g","e","r">> }

\* Sentences of job descriptions.  A description is the concatenation of at
\* most MaxDescFrags of them.
DescFragments ==
    << <<"W","i","l","l"," ","t","r","a","i","n","."," ">>,
      <<"B","o","a","r","d"," ","o","f"," ","d","i","r","e","c","t","o","r","s","."," ">>,
      <<"3","-","5"," ","y","e","a","r","s","."," ">>,
      <<"1","0","+"," ","y","e","a","r","s","."," ">>,
      <<"M","i","n","i","m","u","m"," ","7"," ","y","e","a","r","s","."," ">>,
      <<"N","o"," ","e","x","p","e","r","i","e","n","c","e"," ","r","e","q","u","i","r","e","d","."," ">> >>

\* Company names: a retail/service employer and another one.
CompanyNames ==
    { <<"M","c","D","o","n","a","l","d","'","s">>,
      <<"A","c","m","e"," ","C","o","r","p">> }

\* Concatenations of at most n elements of the list frags.
RECURSIVE Concats(_, _)
Concats(frags, n) ==
    IF n = 0 THEN { << >> }
    ELSE LET shorter == Concats(frags, n - 1)
         IN  shorter \cup { s \o frags[i] : s \in shorter, i \in 1..Len(frags) }

Titles == Concats(TitleFragments, MaxTitleFrags)

Descriptions == Concats(DescFragments, MaxDescFrags)

SalaryValues == { k * 50000 : k \in 0..MaxSalaryK }

OptionalSalaries == { None } \cup { Some(s) : s \in SalaryValues }

\* salary_min, salary_max: optional non-negative integers, salary_max >=
\* salary_min when both are given.
SalaryPairs ==
    { p \in OptionalSalaries \X OptionalSalaries :
        p[1] # None /\ p[2] # None => p[1][1] <= p[2][1] }

Companies == { None } \cup { Some(c) : c \in CompanyNames }

JobInput(t, d, smin, smax, c) ==
    [ title |-> t, description |-> d, salary_min |-> smin, salary_max |-> smax,
      company |-> c ]

\* The extractors tabulated over the titles and descriptions of the jobs, so
\* that each value is computed once.
TitleSignalsOf == [ t \in JobTitles |-> analyze_title_signals(t) ]

YearsRequiredOf == [ d \in Descriptions |-> parse_years_required(d) ]

DescriptionSignalsOf == [ d \in Descriptions |-> analyze_description_signals(d) ]

-----------------------------------------------------------------------------
(* State machine *)

locals == << title_level, title_match, years, salary_level, desc_level,
             desc_matches, scores, total_weight, signals, max_score,
             winning_level, confidence >>

InitLocals ==
    /\ title_level = NoLevel
    /\ title_match = None
    /\ years = None
    /\ salary_level = NoLevel
    /\ desc_level = NoLevel
    /\ desc_matches = << >>
    /\ scores = ZeroScores
    /\ total_weight = 0
    /\ signals = EmptySignals
    /\ max_score = 0
    /\ winning_level = NoLevel
    /\ confidence = Frac(0, 1)
    /\ base_result = NoResult
    /\ final_result = NoResult

\* The scraper service has not been started.
NoService ==
    /\ is_running = FALSE
    /\ scrape_lock = [ holder |-> 0, waiters |-> << >> ]
    /\ tasks = << >>
    /\ last_results = << >>
    /\ enabled = {}
    /\ table = << >>

\* Nothing of a batch or of a sequence of calls is in progress.
InitOthers ==
    /\ NoService
    /\ years_level = NoLevel
    /\ salary_band = "None"
    /\ frames = << >>
    /\ calls = << >>
    /\ batch = << >>
    /\ index = 0
    /\ classified_jobs = << >>
    /\ stats = << >>

\* A call classify_job_with_company(job), which starts by calling
\* classify_job(job): the job is any JobInput of the input sets.
Init ==
    /\ \E t \in JobTitles, d \in Descriptions, s \in SalaryPairs, c \in Companies :
          job = JobInput(t, d, s[1], s[2], c)
    /\ pc = "title"
    /\ InitLocals
    /\ InitOthers

\* 1. Title Analysis (weight: 10)
TitleAnalysis ==
    /\ pc = "title"
    /\ LET r == TitleSignalsOf[job.title]
       IN  /\ title_level' = r[1]
           /\ title_match' = r[2]
           /\ IF r[1] # NoLevel
                THEN /\ scores' = AddScore(scores, r[1], TitleWeight)
                     /\ total_weight' = total_weight + TitleWeight
                     /\ signals' = [ signals EXCEPT !.title_match = r[2] ]
                ELSE UNCHANGED << scores, total_weight, signals >>
    /\ pc' = "years"
    /\ UNCHANGED << job, years, salary_level, desc_level, desc_matches,
                    max_score, winning_level, confidence, base_result,
                    final_result, rest, service >>

\* 2. Experience Years Parsing (weight: 8)
YearsParsing ==
    /\ pc = "years"
    /\ LET y == YearsRequiredOf[job.description]
       IN  /\ years' = y
           /\ IF y # None
                THEN /\ scores' = AddScore(scores, years_to_level(y[1]), YearsWeight)
                     /\ total_weight' = total_weight + YearsWeight
                     /\ signals' = [ signals EXCEPT !.years_required = y ]
                ELSE UNCHANGED << scores, total_weight, signals >>
    /\ pc' = "salary"
    /\ UNCHANGED << job, title_level, title_match, salary_level, desc_level,
                    desc_matches, max_score, winning_level, confidence,
                    base_result, final_result, rest, service >>

\* 3. Salary Analysis (weight: 5)
SalaryAnalysis ==
    /\ pc = "salary"
    /\ LET l == salary_to_level(job.salary_min, job.salary_max)
       IN  /\ salary_level' = l
           /\ IF l # NoLevel
                THEN /\ scores' = AddScore(scores, l, SalaryWeight)
                     /\ total_weight' = total_weight + SalaryWeight
                     /\ signals' = [ signals EXCEPT !.salary_band =
                                       get_salary_band(job.salary_min, job.salary_max) ]
                ELSE UNCHANGED << scores, total_weight, signals >>
    /\ pc' = "description"
    /\ UNCHANGED << job, title_level, title_match, years, desc_level,
                    desc_matches, max_score, winning_level, confidence,
                    base_result, final_result, rest, service >>

\* 4. Description Signals (weight: 3)
DescriptionSignals ==
    /\ pc = "description"
    /\ LET r == DescriptionSignalsOf[job.description]
       IN  /\ desc_level' = r[1]
           /\ desc_matches' = r[2]
           /\ IF r[1] # NoLevel
                THEN /\ scores' = AddScore(scores, r[1], DescriptionWeight)
                     /\ total_weight' = total_weight + DescriptionWeight
                     /\ signals' = IF r[2] # << >>
                                     THEN [ signals EXCEPT !.description_signals = r[2] ]
                                     ELSE signals
                ELSE UNCHANGED << scores, total_weight, signals >>
    /\ pc' = "decide"
    /\ UNCHANGED << job, title_level, title_match, years, salary_level,
                    max_score, winning_level, confidence, base_result,
                    final_result, rest, service >>

\* Determine winning level, calculate confidence, determine audience tags
\* and return the ClassificationResult.
Decide ==
    /\ pc = "decide"
    /\ LET w    == DetermineWinner(scores)
           conf == ComputeConfidence(scores, w[1], total_weight)
       IN  /\ max_score' = w[1]
           /\ winning_level' = w[2]
           /\ confidence' = conf
           /\ base_result' =
                [ experience_level |-> w[2],
                  audience_tags |-> AudienceTags(scores, w[2], conf, total_weight),
                  confidence |-> Round2(conf),
                  signals |-> signals ]
    /\ pc' = "returned"
    /\ UNCHANGED << job, title_level, title_match, years, salary_level,
                    desc_level, desc_matches, scores, total_weight, signals,
                    final_result, rest, service >>

\* The retail/service manager condition of classify_job_with_company.
RetailManagerContext(j) ==
    /\ j.company # None /\ j.company[1] # << >>
    /\ is_retail_service_company(j.company)
    /\ Contains(Lower(j.title), <<"m","a","n","a","g","e","r">>)
    /\ ~Contains(Lower(j.title), <<"g","e","n","e","r","a","l"," ","m","a","n","a","g","e","r">>)
    /\ salary_to_level(j.salary_min, j.salary_max) \in { NoLevel, ENTRY }

RetailManagerMarker ==
    <<"r","e","t","a","i","l","/","s","e","r","v","i","c","e"," ","m","a","n","a","g","e","r"," ","c","o","n","t","e","x","t">>

Max(a, b) == IF a >= b THEN a ELSE b

\* Faulty variant of CompanyResult: the override sets the confidence to 0.7
\* instead of max(base confidence, 0.7).
CompanyResultFlatConfidence(j, base) ==
    IF RetailManagerContext(j)
    THEN [ experience_level |-> ENTRY,
           audience_tags |-> { "genz" },
           confidence |-> 70,
           signals |-> [ base.signals EXCEPT !.description_signals =
                           @ \o << RetailManagerMarker >> ] ]
    ELSE base

\* Faulty variant of CompanyResult: the override does not look at the salary.
CompanyResultAnySalary(j, base) ==
    IF /\ j.company # None /\ j.company[1] # << >>
       /\ is_retail_service_company(j.company)
       /\ Contains(Lower(j.title), <<"m","a","n","a","g","e","r">>)
       /\ ~Contains(Lower(j.title), <<"g","e","n","e","r","a","l"," ","m","a","n","a","g","e","r">>)
    THEN [ experience_level |-> ENTRY,
           audience_tags |-> { "genz" },
           confidence |-> Max(base.confidence, 70),
           signals |-> [ base.signals EXCEPT !.description_signals =
                           @ \o << RetailManagerMarker >> ] ]
    ELSE base

\* What classify_job_with_company returns for job j, given the base result.
CompanyResult(j, base) ==
    IF RetailManagerContext(j)
    THEN [ experience_level |-> ENTRY,
           audience_tags |-> { "genz" },
           confidence |-> Max(base.confidence, 70),
           signals |-> [ base.signals EXCEPT !.description_signals =
                           @ \o << RetailManagerMarker >> ] ]
    ELSE base

\* classify_job_with_company after its call of classify_job has returned.
CompanyContext ==
    /\ pc = "returned"
    /\ final_result' = CompanyResult(job, base_result)
    /\ pc' = "done"
    /\ UNCHANGED << job, locals, base_result, rest, service >>

Next ==
    \/ TitleAnalysis
    \/ YearsParsing
    \/ SalaryAnalysis
    \/ DescriptionSignals
    \/ Decide
    \/ CompanyContext

Spec == Init /\ [][Next]_vars

-----------------------------------------------------------------------------
(* analyze_title_signals on its own, over a wider set of titles *)

InitTitle ==
    /\ \E t \in Titles : job = JobInput(t, << >>, None, None, None)
    /\ pc = "analyze"
    /\ InitLocals
    /\ InitOthers

AnalyzeTitle ==
    /\ pc = "analyze"
    /\ LET r == analyze_title_signals(job.title)
       IN  /\ title_level' = r[1]
           /\ title_match' = r[2]
    /\ pc' = "analyzed"
    /\ UNCHANGED << job, years, salary_level, desc_level, desc_matches, scores,
                    total_weight, signals, max_score, winning_level,
                    confidence, base_result, final_result, rest, service >>

NextTitle == AnalyzeTitle

SpecTitle == InitTitle /\ [][NextTitle]_vars

-----------------------------------------------------------------------------
(* parse_years_required and years_to_level on their own *)

\* Sentences about years of experience: '5+ years of experience. ',
\* 'No experience required. ', '3-5 years. ', '30-40 years. ',
\* 'Minimum 7 years. ', '2 years of experience. ', '100+ years. ',
\* 'At least 24 years. ', 'Entry-level. ', '26 to 3 years experience. ',
\* 'min. 30 years exp. ', '22+ years. ', '5-3 years. '.  A text handed to
\* parse_years_required is the concatenation of at most MaxDescFrags of them.
YearsFragments ==
    << <<"5","+"," ","y","e","a","r","s"," ","o","f"," ","e","x","p","e","r","i","e","n","c","e","."," ">>,
      <<"N","o"," ","e","x","p","e","r","i","e","n","c","e"," ","r","e","q","u","i","r","e","d","."," ">>,
      <<"3","-","5"," ","y","e","a","r","s","."," ">>,
      <<"3","0","-","4","0"," ","y","e","a","r","s","."," ">>,
      <<"M","i","n","i","m","u","m"," ","7"," ","y","e","a","r","s","."," ">>,
      <<"2"," ","y","e","a","r","s"," ","o","f"," ","e","x","p","e","r","i","e","n","c","e","."," ">>,
      <<"1","0","0","+"," ","y","e","a","r","s","."," ">>,
      <<"A","t"," ","l","e","a","s","t"," ","2","4"," ","y","e","a","r","s","."," ">>,
      <<"E","n","t","r","y","-","l","e","v","e","l","."," ">>,
      <<"2","6"," ","t","o"," ","3"," ","y","e","a","r","s"," ","e","x","p","e","r","i","e","n","c","e","."," ">>,
      <<"m","i","n","."," ","3","0"," ","y","e","a","r","s"," ","e","x","p","."," ">>,
      <<"2","2","+"," ","y","e","a","r","s","."," ">>,
      <<"5","-","3"," ","y","e","a","r","s","."," ">> >>

YearsTexts == Concats(YearsFragments, MaxDescFrags)

\* The dictionaries handed to years_to_level: both bounds within 0..25.
YearsPairs == [ min : 0..25, max : 0..25 ]

\* Either a call parse_years_required(text) followed, as in classify_job, by
\* years_to_level on a result that is not None, or a call of years_to_level
\* on any pair.
InitYears ==
    /\ \/ /\ \E t \in YearsTexts : job = JobInput(<< >>, t, None, None, None)
          /\ years = None
          /\ pc = "parse"
       \/ /\ job = JobInput(<< >>, << >>, None, None, None)
          /\ \E y \in YearsPairs : years = Some(y)
          /\ pc = "pair"
    /\ title_level = NoLevel
    /\ title_match = None
    /\ salary_level = NoLevel
    /\ desc_level = NoLevel
    /\ desc_matches = << >>
    /\ scores = ZeroScores
    /\ total_weight = 0
    /\ signals = EmptySignals
    /\ max_score = 0
    /\ winning_level = NoLevel
    /\ confidence = Frac(0, 1)
    /\ base_result = NoResult
    /\ final_result = NoResult
    /\ InitOthers

ParseYears ==
    /\ pc = "parse"
    /\ years' = parse_years_required(job.description)
    /\ pc' = "parsed"
    /\ UNCHANGED << job, title_level, title_match, salary_level, desc_level,
                    desc_matches, scores, total_weight, signals, max_score,
                    winning_level, confidence, base_result, final_result, rest,
                    service >>

YearsToLevel ==
    /\ pc \in { "parsed", "pair" }
    /\ years # None
    /\ years_level' = years_to_level(years[1])
    /\ pc' = "levelled"
    /\ UNCHANGED << job, locals, base_result, final_result, salary_band, frames,
                    calls, batch, index, classified_jobs, stats, service >>

NextYears == ParseYears \/ YearsToLevel

SpecYears == InitYears /\ [][NextYears]_vars

-----------------------------------------------------------------------------
(* salary_to_level and get_salary_band on their own *)

\* Salary bounds: the multiples of 50000, and the values next to the limits
\* of the brackets.
SalaryPoints ==
    SalaryValues \cup { 1, 59999, 60000, 99999, 100000, 199999, 200000 }

\* Any two optional non-negative integers.
SalaryArguments ==
    ({ None } \cup { Some(v) : v \in SalaryPoints })
        \X ({ None } \cup { Some(v) : v \in SalaryPoints })

\* salary_to_level and then get_salary_band on the same pair, as in
\* classify_job.
InitSalary ==
    /\ \E p \in SalaryArguments : job = JobInput(<< >>, << >>, p[1], p[2], None)
    /\ pc = "salary_to_level"
    /\ InitLocals
    /\ InitOthers

SalaryToLevel ==
    /\ pc = "salary_to_level"
    /\ salary_level' = salary_to_level(job.salary_min, job.salary_max)
    /\ pc' = "get_salary_band"
    /\ UNCHANGED << job, title_level, title_match, years, desc_level,
                    desc_matches, scores, total_weight, signals, max_score,
                    winning_level, confidence, base_result, final_result, rest,
                    service >>

GetSalaryBand ==
    /\ pc = "get_salary_band"
    /\ salary_band' = get_salary_band(job.salary_min, job.salary_max)
    /\ pc' = "banded"
    /\ UNCHANGED << job, locals, base_result, final_result, years_level, frames,
                    calls, batch, index, classified_jobs, stats, service >>

NextSalary == SalaryToLevel \/ GetSalaryBand

SpecSalary == InitSalary /\ [][NextSalary]_vars

-----------------------------------------------------------------------------
(* analyze_description_signals on its own *)

\* Sentences with phrases of the four categories: 'Will train. ',
\* 'Training provided. ', 'Board of directors. ', 'Company strategy. ',
\* 'Deep expertise. ', '10+ years. ', 'Manage a team. ',
\* 'Proven track record. ', 'Great benefits. ', 'RECENT GRADUATE. '.
SignalFragments ==
    << <<"W","i","l","l"," ","t","r","a","i","n","."," ">>,
      <<"T","r","a","i","n","i","n","g"," ","p","r","o","v","i","d","e","d","."," ">>,
      <<"B","o","a","r","d"," ","o","f"," ","d","i","r","e","c","t","o","r","s","."," ">>,
      <<"C","o","m","p","a","n","y"," ","s","t","r","a","t","e","g","y","."," ">>,
      <<"D","e","e","p"," ","e","x","p","e","r","t","i","s","e","."," ">>,
      <<"1","0","+"," ","y","e","a","r","s","."," ">>,
      <<"M","a","n","a","g","e"," ","a"," ","t","e","a","m","."," ">>,
      <<"P","r","o","v","e","n"," ","t","r","a","c","k"," ","r","e","c","o","r","d","."," ">>,
      <<"G","r","e","a","t"," ","b","e","n","e","f","i","t","s","."," ">>,
      <<"R","E","C","E","N","T"," ","G","R","A","D","U","A","T","E","."," ">> >>

SignalTexts == Concats(SignalFragments, MaxDescFrags)

InitDescription ==
    /\ \E d \in SignalTexts : job = JobInput(<< >>, d, None, None, None)
    /\ pc = "analyze_description"
    /\ InitLocals
    /\ InitOthers

AnalyzeDescription ==
    /\ pc = "analyze_description"
    /\ LET r == analyze_description_signals(job.description)
       IN  /\ desc_level' = r[1]
           /\ desc_matches' = r[2]
    /\ pc' = "description_analyzed"
    /\ UNCHANGED << job, title_level, title_match, years, salary_level, scores,
                    total_weight, signals, max_score, winning_level,
                    confidence, base_result, final_result, rest, service >>

NextDescription == AnalyzeDescription

SpecDescription == InitDescription /\ [][NextDescription]_vars

-----------------------------------------------------------------------------
(* classify_job as a function of its argument, and sequences of calls *)

\* The locals that classify_job binds on entry: signals, scores and
\* total_weight; base_result and result hold what classify_job and
\* classify_job_with_company return.
NewFrame ==
    [ scores |-> ZeroScores, total_weight |-> 0, signals |-> EmptySignals,
      base_result |-> NoResult, result |-> NoResult ]

\* Faulty variant of EnterFrame: scores, total_weight and signals live
\* outside the function and keep what the previous call left in them.
EnterFrameKept(old) == [ old EXCEPT !.base_result = NoResult, !.result = NoResult ]

\* Entering classify_job binds fresh locals, whatever an earlier call left.
EnterFrame(old) == NewFrame

\* The steps of a call, in order.
Stages == << "title", "years", "salary", "description", "decide", "company" >>

\* if title_level: the title's level r[1] scores with the title weight and
\* its phrase r[2] is recorded.
ScoreTitle(f, r) ==
    IF r[1] # NoLevel
    THEN [ f EXCEPT !.scores = AddScore(@, r[1], TitleWeight),
                    !.total_weight = @ + TitleWeight,
                    !.signals = [ @ EXCEPT !.title_match = r[2] ] ]
    ELSE f

\* if years: the level of the parsed minimum scores with the years weight
\* and the pair y is recorded.
ScoreYears(f, y) ==
    IF y # None
    THEN [ f EXCEPT !.scores = AddScore(@, years_to_level(y[1]), YearsWeight),
                    !.total_weight = @ + YearsWeight,
                    !.signals = [ @ EXCEPT !.years_required = y ] ]
    ELSE f

\* if desc_level: the description's level r[1] scores with the description
\* weight and its phrases r[2], when there are any, are recorded.
ScoreDescription(f, r) ==
    IF r[1] # NoLevel
    THEN [ f EXCEPT !.scores = AddScore(@, r[1], DescriptionWeight),
                    !.total_weight = @ + DescriptionWeight,
                    !.signals = IF r[2] # << >>
                                  THEN [ @ EXCEPT !.description_signals = r[2] ]
                                  ELSE @ ]
    ELSE f

\* The locals f of a call on job j after the step `stage`.
StepFrame(f, j, stage) ==
    CASE stage = "title" -> ScoreTitle(f, TitleSignalsOf[j.title])
      [] stage = "years" -> ScoreYears(f, YearsRequiredOf[j.description])
      [] stage = "salary" ->
           LET l == salary_to_level(j.salary_min, j.salary_max)
           IN  IF l # NoLevel
               THEN [ f EXCEPT !.scores = AddScore(@, l, SalaryWeight),
                               !.total_weight = @ + SalaryWeight,
                               !.signals = [ @ EXCEPT !.salary_band =
                                               get_salary_band(j.salary_min, j.salary_max) ] ]
               ELSE f
      [] stage = "description" ->
           ScoreDescription(f, DescriptionSignalsOf[j.description])
      [] stage = "decide" ->
           LET w    == DetermineWinner(f.scores)
               conf == ComputeConfidence(f.scores, w[1], f.total_weight)
           IN  [ f EXCEPT !.base_result =
                   [ experience_level |-> w[2],
                     audience_tags |-> AudienceTags(f.scores, w[2], conf, f.total_weight),
                     confidence |-> Round2(conf),
                     signals |-> f.signals ] ]
      [] stage = "company" ->
           [ f EXCEPT !.result = CompanyResult(j, f.base_result) ]

\* The locals after the first n steps of a call on job j.
RECURSIVE RunFrame(_, _)
RunFrame(j, n) ==
    IF n = 0 THEN EnterFrame(NewFrame)
    ELSE StepFrame(RunFrame(j, n - 1), j, Stages[n])

\* The value classify_job returns for job j.
classify_job(j) == RunFrame(j, 5).base_result

\* The value classify_job_with_company returns for job j.
classify_job_with_company(j) == RunFrame(j, 6).result

\* The jobs of the calls: an internship, a store manager at a fast-food
\* chain, a senior analyst with years, salary and description signals, a job
\* without any signal, and a vice president without experience required.
CallJobs ==
    { JobInput(<<"I","n","t","e","r","n">>, << >>, None, None, None),
      JobInput(<<"S","t","o","r","e"," ","M","a","n","a","g","e","r">>, << >>, Some(50000), Some(50000),
               Some(<<"M","c","D","o","n","a","l","d","'","s">>)),
      JobInput(<<"S","e","n","i","o","r"," ","A","n","a","l","y","s","t">>,
               <<"3","-","5"," ","y","e","a","r","s","."," ">>,
               Some(100000), Some(150000), Some(<<"A","c","m","e"," ","C","o","r","p">>)),
      JobInput(<< >>, << >>, None, None, None),
      JobInput(<<"V","P"," ","o","f"," ","S","a","l","e","s">>,
               <<"N","o"," ","e","x","p","e","r","i","e","n","c","e"," ","r","e","q","u","i","r","e","d","."," ">>,
               None, None, Some(<<"A","c","m","e"," ","C","o","r","p">>)) }

\* Largest number of classify_job calls made one after the other.
MaxCalls == 3

\* A caller that calls classify_job again and again, on any jobs.
InitCalls ==
    /\ NoService
    /\ job = JobInput(<< >>, << >>, None, None, None)
    /\ pc = "idle"
    /\ InitLocals
    /\ years_level = NoLevel
    /\ salary_band = "None"
    /\ frames = << NewFrame >>
    /\ calls = << >>
    /\ batch = << >>
    /\ index = 0
    /\ classified_jobs = << >>
    /\ stats = << >>

\* classify_job(j) is called.
Call ==
    /\ pc = "idle"
    /\ Len(calls) < MaxCalls
    /\ \E j \in CallJobs : job' = j
    /\ frames' = [ frames EXCEPT ![1] = EnterFrame(@) ]
    /\ pc' = "title"
    /\ UNCHANGED << locals, base_result, final_result, years_level, salary_band,
                    calls, batch, index, classified_jobs, stats, service >>

\* The position after a step of classify_job.
AfterStage(stage) ==
    CASE stage = "title" -> "years"
      [] stage = "years" -> "salary"
      [] stage = "salary" -> "description"
      [] stage = "description" -> "decide"
      [] stage = "decide" -> "returned"
      [] stage = "company" -> "done"

\* The next step of the call in progress.
StepCall ==
    /\ pc \in { "title", "years", "salary", "description", "decide" }
    /\ frames' = [ frames EXCEPT ![1] = StepFrame(@, job, pc) ]
    /\ pc' = AfterStage(pc)
    /\ UNCHANGED << job, locals, base_result, final_result, years_level,
                    salary_band, calls, batch, index, classified_jobs, stats,
                    service >>

\* The call returns its ClassificationResult to the caller.
ReturnCall ==
    /\ pc = "returned"
    /\ calls' = Append(calls, [ job |-> job, result |-> frames[1].base_result ])
    /\ pc' = "idle"
    /\ UNCHANGED << job, locals, base_result, final_result, years_level,
                    salary_band, frames, batch, index, classified_jobs, stats,
                    service >>

NextCalls == Call \/ StepCall \/ ReturnCall

SpecCalls == InitCalls /\ [][NextCalls]_vars

-----------------------------------------------------------------------------
(* A batch of jobs classified by concurrent workers *)

\* Largest number of jobs in a batch.
MaxBatch == 2

\* The lists of at most n elements of the set S.
RECURSIVE ListsUpTo(_, _)
ListsUpTo(S, n) ==
    IF n = 0 THEN { << >> }
    ELSE LET shorter == ListsUpTo(S, n - 1)
         IN  shorter \cup { Append(l, x) : l \in shorter, x \in S }

\* Faulty variant of FrameOf: the locals are module-level variables, one
\* copy for all calls.
FrameOfShared(k) == 1

\* The call that classifies job k of the batch has its own locals.
FrameOf(k) == k

\* Worker k classifies job k of the batch with classify_job_with_company;
\* the workers run in any order and interleaving.  Here pc maps each worker
\* to its position and calls lists the verdicts in the order of completion.
InitWorkers ==
    /\ NoService
    /\ \E b \in ListsUpTo(CallJobs, MaxBatch) \ { << >> } : batch = b
    /\ pc = [ k \in 1..Len(batch) |-> "idle" ]
    /\ frames = [ k \in 1..Len(batch) |-> NewFrame ]
    /\ calls = << >>
    /\ job = JobInput(<< >>, << >>, None, None, None)
    /\ InitLocals
    /\ years_level = NoLevel
    /\ salary_band = "None"
    /\ index = 0
    /\ classified_jobs = << >>
    /\ stats = << >>

WorkerCall(k) ==
    /\ pc[k] = "idle"
    /\ frames' = [ frames EXCEPT ![FrameOf(k)] = EnterFrame(@) ]
    /\ pc' = [ pc EXCEPT ![k] = "title" ]
    /\ UNCHANGED << job, locals, base_result, final_result, years_level,
                    salary_band, calls, batch, index, classified_jobs, stats,
                    service >>

WorkerStep(k) ==
    /\ pc[k] \in { "title", "years", "salary", "description", "decide" }
    /\ frames' = [ frames EXCEPT ![FrameOf(k)] = StepFrame(@, batch[k], pc[k]) ]
    /\ pc' = [ pc EXCEPT ![k] = AfterStage(pc[k]) ]
    /\ UNCHANGED << job, locals, base_result, final_result, years_level,
                    salary_band, calls, batch, index, classified_jobs, stats,
                    service >>

\* classify_job has returned into classify_job_with_company.
WorkerCompany(k) ==
    /\ pc[k] = "returned"
    /\ frames' = [ frames EXCEPT ![FrameOf(k)] = StepFrame(@, batch[k], "company") ]
    /\ pc' = [ pc EXCEPT ![k] = AfterStage("company") ]
    /\ UNCHANGED << job, locals, base_result, final_result, years_level,
                    salary_band, calls, batch, index, classified_jobs, stats,
                    service >>

\* classify_job_with_company returns the verdict of job k.
WorkerReturn(k) ==
    /\ pc[k] = "done"
    /\ calls' = Append(calls, [ index |-> k, job |-> batch[k],
                                result |-> frames[FrameOf(k)].result ])
    /\ pc' = [ pc EXCEPT ![k] = "finished" ]
    /\ UNCHANGED << job, locals, base_result, final_result, years_level,
                    salary_band, frames, batch, index, classified_jobs, stats,
                    service >>

NextWorkers ==
    \E k \in 1..Len(batch) :
        \/ WorkerCall(k)
        \/ WorkerStep(k)
        \/ WorkerCompany(k)
        \/ WorkerReturn(k)

SpecWorkers == InitWorkers /\ [][NextWorkers]_vars

-----------------------------------------------------------------------------
(* BaseScraper.classify_jobs *)

\* The members of ClassifiedExperienceLevel.  base.py imports the type from
\* models, and models.py does not declare it; its members are taken to be
\* the four levels, which classify_jobs counts in stats and converts from
\* result.experience_level.value.
ClassifiedLevels == { "ENTRY", "MID", "SENIOR", "EXECUTIVE" }

\* ClassifiedExperienceLevel(value): the member with that value.  Only
\* applied to a value of ClassifiedLevels; any other value raises ValueError.
ClassifiedExperienceLevel(value) == CHOOSE m \in ClassifiedLevels : m = value

\* The fields of a ScrapedJob that the classifier reads.  The title is
\* optional here: None stands for a record whose title is not a string.
ScrapedJob(id, t, d, smin, smax, c) ==
    [ external_id |-> id, title |-> t, description |-> d, salary_min |-> smin,
      salary_max |-> smax, company_name |-> c ]

\* The three fields of a job that classify_jobs assigns, before it has done
\* so.  The ScrapedJob of models.py does not declare them; they are taken
\* to be assignable fields of the job, as the specification of the batch
\* layer has it (each job ends with a level, audience tags and a
\* confidence).
Unclassified ==
    [ classified_level |-> NoLevel, audience_tags |-> {},
      classification_confidence |-> None ]

\* The records of the batches: the jobs of CallJobs, and a bad record with
\* title None and the description '3-5 years. '.
FetchedRecords ==
    { [ title |-> Some(j.title), description |-> j.description,
        salary_min |-> j.salary_min, salary_max |-> j.salary_max,
        company_name |-> IF j.company = None THEN << >> ELSE j.company[1] ] :
      j \in CallJobs }
    \cup
    { [ title |-> None, description |-> <<"3","-","5"," ","y","e","a","r","s","."," ">>,
        salary_min |-> None, salary_max |-> None,
        company_name |-> <<"A","c","m","e"," ","C","o","r","p">> ] }

\* classify_job_with_company raises on the job: title.lower() on a title
\* that is None is an AttributeError.
ClassificationRaises(j) == j.title = None

\* Create input for classifier (for a job whose title is a string).
JobInputOf(j) ==
    JobInput(j.title[1], j.description, j.salary_min, j.salary_max,
             Some(j.company_name))

\* Faulty variant of DefaultClassification: the handler only logs the failure.
DefaultClassificationMissing(j) == j

\* Default to MID if classification fails.
DefaultClassification(j) ==
    [ j EXCEPT !.classified_level = ClassifiedExperienceLevel("MID"),
               !.audience_tags = { "mid_career" },
               !.classification_confidence = Some(30) ]

\* A call classify_jobs(jobs).  batch holds the job objects, which the loop
\* updates in place; classified_jobs holds references to them (positions in
\* batch); index is the position of the job of the current iteration.
InitBatch ==
    /\ NoService
    /\ \E l \in ListsUpTo(FetchedRecords, MaxBatch) :
          batch = [ k \in 1..Len(l) |->
                      ScrapedJob(k, l[k].title, l[k].description, l[k].salary_min,
                                 l[k].salary_max, l[k].company_name)
                          @@ Unclassified ]
    /\ index = 0
    /\ classified_jobs = << >>
    /\ stats = [ l \in ClassifiedLevels |-> 0 ]
    /\ pc = "for"
    /\ job = JobInput(<< >>, << >>, None, None, None)
    /\ InitLocals
    /\ years_level = NoLevel
    /\ salary_band = "None"
    /\ frames = << >>
    /\ calls = << >>

\* for job in jobs: the next job, or the end of the loop.
ForJob ==
    /\ pc = "for"
    /\ IF index < Len(batch)
         THEN index' = index + 1 /\ pc' = "try"
         ELSE index' = index /\ pc' = "stats"
    /\ UNCHANGED << job, locals, base_result, final_result, years_level,
                    salary_band, frames, calls, batch, classified_jobs, stats,
                    service >>

\* Lines 77-81 with the result of the classifier: the three assignments to
\* the job and the count of its level; the conversion to
\* ClassifiedExperienceLevel raises for a value that is not a member.
Classified(result) ==
    IF result.experience_level \notin ClassifiedLevels
    THEN /\ pc' = "except"
         /\ UNCHANGED << batch, stats >>
    ELSE /\ batch' = [ batch EXCEPT ![index] =
               [ @ EXCEPT
                   !.classified_level =
                       ClassifiedExperienceLevel(result.experience_level),
                   !.audience_tags = result.audience_tags,
                   !.classification_confidence = Some(result.confidence) ] ]
         /\ stats' = [ stats EXCEPT ![result.experience_level] = @ + 1 ]
         /\ pc' = "append"

\* The try block: classify the job and update it with the classification,
\* or leave it with an exception.
TryClassify ==
    /\ pc = "try"
    /\ IF ClassificationRaises(batch[index])
         THEN /\ pc' = "except"
              /\ UNCHANGED << batch, stats >>
         ELSE Classified(classify_job_with_company(JobInputOf(batch[index])))
    /\ UNCHANGED << job, locals, base_result, final_result, years_level,
                    salary_band, frames, calls, index, classified_jobs,
                    service >>

\* except Exception: log and default the job.
ExceptClassify ==
    /\ pc = "except"
    /\ batch' = [ batch EXCEPT ![index] = DefaultClassification(@) ]
    /\ pc' = "append"
    /\ UNCHANGED << job, locals, base_result, final_result, years_level,
                    salary_band, frames, calls, index, classified_jobs, stats,
                    service >>

\* classified_jobs.append(job)
AppendJob ==
    /\ pc = "append"
    /\ classified_jobs' = Append(classified_jobs, index)
    /\ pc' = "for"
    /\ UNCHANGED << job, locals, base_result, final_result, years_level,
                    salary_band, frames, calls, batch, index, stats, service >>

\* Log classification stats and return classified_jobs.
ReturnClassified ==
    /\ pc = "stats"
    /\ pc' = "classified"
    /\ UNCHANGED << job, locals, base_result, final_result, rest, service >>

NextBatch ==
    \/ ForJob
    \/ TryClassify
    \/ ExceptClassify
    \/ AppendJob
    \/ ReturnClassified

SpecBatch == InitBatch /\ [][NextBatch]_vars

-----------------------------------------------------------------------------
(* classify_job_with_company on any arguments *)

\* The descriptions of the calls: the empty one and the single sentences.
TotalDescriptions == Concats(DescFragments, 1)

\* The arguments of a call.  The documented domain is a string title, a
\* string description, optional integer salary bounds and an optional string
\* company; a title or a description that is None is outside of it.
CallArguments ==
    { [ title |-> t, description |-> d, salary_min |-> s[1],
        salary_max |-> s[2], company |-> c ] :
      t \in { None } \cup { Some(x) : x \in JobTitles },
      d \in { None } \cup { Some(x) : x \in TotalDescriptions },
      s \in SalaryPairs, c \in Companies }

Documented(a) == a.title # None /\ a.description # None

\* The JobInput the later statements read, once title.lower() and
\* text.lower() have not raised.
AsJobInput(a) ==
    JobInput(IF a.title = None THEN << >> ELSE a.title[1],
             IF a.description = None THEN << >> ELSE a.description[1],
             a.salary_min, a.salary_max, a.company)

\* The statements of a stage raise: title.lower() in analyze_title_signals
\* and text.lower() in parse_years_required are an AttributeError on None,
\* and max_score / total_weight is a ZeroDivisionError on a zero divisor.
StageRaises(f, a, stage) ==
    CASE stage = "title" -> a.title = None
      [] stage = "years" -> a.description = None
      [] stage = "decide" ->
           ComputeConfidence(f.scores, DetermineWinner(f.scores)[1],
                             f.total_weight).den = 0
      [] OTHER -> FALSE

\* The stage executed at a position of the call.
StageAt(p) == IF p = "returned" THEN "company" ELSE p

InitTotal ==
    /\ NoService
    /\ job \in CallArguments
    /\ pc = "title"
    /\ InitLocals
    /\ years_level = NoLevel
    /\ salary_band = "None"
    /\ frames = << NewFrame >>
    /\ calls = << >>
    /\ batch = << >>
    /\ index = 0
    /\ classified_jobs = << >>
    /\ stats = << >>

\* The next stage of the call completes.
TotalStep ==
    /\ pc \in { "title", "years", "salary", "description", "decide", "returned" }
    /\ ~StageRaises(frames[1], job, StageAt(pc))
    /\ frames' = [ frames EXCEPT ![1] = StepFrame(@, AsJobInput(job), StageAt(pc)) ]
    /\ pc' = AfterStage(StageAt(pc))
    /\ UNCHANGED << job, locals, base_result, final_result, years_level,
                    salary_band, calls, batch, index, classified_jobs, stats,
                    service >>

\* The next stage of the call raises, and the exception leaves the call.
TotalRaise ==
    /\ pc \in { "title", "years", "salary", "description", "decide", "returned" }
    /\ StageRaises(frames[1], job, StageAt(pc))
    /\ pc' = "raised"
    /\ UNCHANGED << job, locals, base_result, final_result, years_level,
                    salary_band, frames, calls, batch, index, classified_jobs,
                    stats, service >>

NextTotal == TotalStep \/ TotalRaise

SpecTotal == InitTotal /\ [][NextTotal]_vars

-----------------------------------------------------------------------------
(* The scorer of classify_job on any outcome of the four extractors *)

OptionalLevels == LevelSet \cup { NoLevel }

\* The four extractors have returned: each of them any level or none (the
\* title, the years, the salary and the phrases of the description are
\* independent of one another).
InitScores ==
    /\ NoService
    /\ title_level \in OptionalLevels
    /\ years_level \in OptionalLevels
    /\ salary_level \in OptionalLevels
    /\ desc_level \in OptionalLevels
    /\ pc = "score"
    /\ job = JobInput(<< >>, << >>, None, None, None)
    /\ title_match = None
    /\ years = None
    /\ desc_matches = << >>
    /\ scores = ZeroScores
    /\ total_weight = 0
    /\ signals = EmptySignals
    /\ max_score = 0
    /\ winning_level = NoLevel
    /\ confidence = Frac(0, 1)
    /\ base_result = NoResult
    /\ final_result = NoResult
    /\ salary_band = "None"
    /\ frames = << >>
    /\ calls = << >>
    /\ batch = << >>
    /\ index = 0
    /\ classified_jobs = << >>
    /\ stats = << >>

\* scores[level] += weight and total_weight += weight for an extractor that
\* returned a level.
Scored(sc, level, w) == IF level # NoLevel THEN AddScore(sc, level, w) ELSE sc

Weighed(level, w) == IF level # NoLevel THEN w ELSE 0

\* The four `if` blocks of classify_job.
AccumulateScores ==
    /\ pc = "score"
    /\ scores' = Scored(Scored(Scored(Scored(scores, title_level, TitleWeight),
                                      years_level, YearsWeight),
                               salary_level, SalaryWeight),
                        desc_level, DescriptionWeight)
    /\ total_weight' = total_weight + Weighed(title_level, TitleWeight)
                         + Weighed(years_level, YearsWeight)
                         + Weighed(salary_level, SalaryWeight)
                         + Weighed(desc_level, DescriptionWeight)
    /\ pc' = "decide"
    /\ UNCHANGED << job, title_level, title_match, years, salary_level,
                    desc_level, desc_matches, signals, max_score,
                    winning_level, confidence, base_result, final_result, rest,
                    service >>

NextScores == AccumulateScores \/ Decide

SpecScores == InitScores /\ [][NextScores]_vars

-----------------------------------------------------------------------------
(* The scraper service: scheduler.py, main.py, scrapers/base.py             *)
(*                                                                          *)
(* The service runs on one asyncio event loop: a coroutine runs alone from  *)
(* one `await` that suspends it to the next, so an action is the code       *)
(* between two such awaits.  The awaits that suspend are the wait for       *)
(* _scrape_lock when it is taken, `await scraper.scrape()` and              *)
(* `await db.save_jobs(jobs)`.                                              *)

\* Largest number of requests and scheduled runs started.
MaxTasks == 3

\* The keys of JOB_SOURCES, in the order of config.py; run_scrapers tests
\* them in the same order.
JobSources == << "remotive", "arbeitnow", "jsearch", "usajobs", "apprenticeship" >>

\* The sources enabled whatever the environment holds.
AlwaysEnabled == { "remotive", "arbeitnow", "apprenticeship" }

\* jsearch and usajobs are enabled when their API keys are set.
EnabledConfigurations ==
    { AlwaysEnabled \cup keyed : keyed \in SUBSET { "jsearch", "usajobs" } }

\* Initialize scrapers: the enabled sources, in the order of the `if`s.
Scrapers(en) == SelectSeq(JobSources, LAMBDA s : s \in en)

ScrapeResult(source, found, added, updated, errors) ==
    [ source |-> source, jobs_found |-> found, jobs_added |-> added,
      jobs_updated |-> updated, errors |-> errors ]

\* What fetch_jobs does: it raises, or it returns a list of jobs (their
\* external ids).
Fetches ==
    { [ raises |-> TRUE, jobs |-> << >> ],
      [ raises |-> FALSE, jobs |-> << >> ],
      [ raises |-> FALSE, jobs |-> << "job-1" >> ] }

\* BaseScraper.scrape: << result, jobs >>.  An exception of fetch_jobs is
\* caught and reported in errors, with no jobs.
Scrape(source, fetched) ==
    IF fetched.raises
    THEN << ScrapeResult(source, 0, 0, 0, << "Error scraping" >>), << >> >>
    ELSE << ScrapeResult(source, Len(fetched.jobs), 0, 0, << >>), fetched.jobs >>

\* The ScrapeResult appended by `except Exception as e` of run_scrapers and
\* returned by that of run_single_scraper.
FailedResultMissing(source) == << >>

FailedResult(source) == << ScrapeResult(source, 0, 0, 0, << "str(e)" >>) >>

\* The rows of job_listings: for every key (source, sourceId) the number
\* of rows that hold it.
Keys == { << JobSources[i], id >> : i \in 1..Len(JobSources), id \in { "job-1" } }

EmptyTable == [ k \in Keys |-> 0 ]

\* Database.save_jobs run without interruption on the jobs of a source:
\* << table, added, updated >> after the first n jobs.
RECURSIVE SaveJobs(_, _, _, _)
SaveJobs(tbl, source, jobs, n) ==
    IF n = 0 THEN << tbl, 0, 0 >>
    ELSE LET before == SaveJobs(tbl, source, jobs, n - 1)
             key    == << source, jobs[n] >>
         IN  IF before[1][key] > 0
             THEN << before[1], before[2], before[3] + 1 >>
             ELSE << [ before[1] EXCEPT ![key] = 1 ], before[2] + 1, before[3] >>

\* A coroutine that has not started.
NewTask ==
    [ kind |-> "none", pc |-> "new", source |-> "none", scrapers |-> << >>,
      i |-> 0, results |-> << >>, result |-> << >>, jobs |-> << >>,
      raised |-> {} ]

\* asyncio.Lock.acquire returns at once when the lock is free and nobody
\* waits for it.
LockAvailableAlways(l) == TRUE

LockAvailable(l) == l.holder = 0 /\ l.waiters = << >>

\* `finally: self.is_running = False`
AfterFinallyKept(running) == running

AfterFinally(running) == FALSE

\* A full run (run_scrapers past the lock) of task t is in progress.
InRun(t) == tasks[t].kind \in { "scheduled", "manual" }
              /\ tasks[t].pc \in { "scrape", "save" }

\* A single-source scrape (run_single_scraper) of task t is in progress.
InSingle(t) == tasks[t].kind = "single" /\ tasks[t].pc \in { "scrape", "save" }

\* The service is up and idle, with n coroutines to come and one of the
\* configurations: nothing runs, the table holds no row.
ServiceStarted(n, configurations) ==
    /\ is_running = FALSE
    /\ scrape_lock = [ holder |-> 0, waiters |-> << >> ]
    /\ tasks = [ t \in 1..n |-> NewTask ]
    /\ last_results = << >>
    /\ enabled \in configurations
    /\ table = EmptyTable
    /\ job = JobInput(<< >>, << >>, None, None, None)
    /\ pc = "service"
    /\ InitLocals
    /\ years_level = NoLevel
    /\ salary_band = "None"
    /\ frames = << >>
    /\ calls = << >>
    /\ batch = << >>
    /\ index = 0
    /\ classified_jobs = << >>
    /\ stats = << >>

classifier == << job, pc, locals, base_result, final_result, rest >>

\* run_scrapers past `async with self._scrape_lock`, up to its first
\* `await scraper.scrape()`: the lock is taken (the waiters left being
\* those of `waiting`), is_running is set and the scrapers are initialized.
BeginRun(t, kind, waiting) ==
    /\ scrape_lock' = [ holder |-> t, waiters |-> waiting ]
    /\ is_running' = TRUE
    /\ tasks' = [ tasks EXCEPT ![t] =
                    [ @ EXCEPT !.kind = kind, !.pc = "scrape",
                               !.scrapers = Scrapers(enabled), !.i = 1,
                               !.results = << >> ] ]
    /\ UNCHANGED << last_results, enabled, table, classifier >>

\* A call of run_scrapers: it takes the lock at once or waits for it.
EnterRun(t, kind) ==
    IF LockAvailable(scrape_lock)
    THEN BeginRun(t, kind, scrape_lock.waiters)
    ELSE /\ scrape_lock' = [ scrape_lock EXCEPT !.waiters = Append(@, t) ]
         /\ tasks' = [ tasks EXCEPT ![t] = [ @ EXCEPT !.kind = kind, !.pc = "waiting" ] ]
         /\ UNCHANGED << is_running, last_results, enabled, table, classifier >>

\* No scheduled run is waiting or in progress (the scheduler starts one
\* instance of its job at a time).
NoScheduledInstance ==
    \A u \in DOMAIN tasks : tasks[u].kind = "scheduled" =>
                        tasks[u].pc \notin { "waiting", "scrape", "save" }

\* The interval trigger of the scheduler fires: run_scrapers is called.
ScheduledRun(t) ==
    /\ tasks[t].pc = "new"
    /\ NoScheduledInstance
    /\ EnterRun(t, "scheduled")

\* POST /scrape
TriggerScrape(t) ==
    /\ tasks[t].pc = "new"
    /\ IF is_running
       THEN /\ tasks' = [ tasks EXCEPT ![t] = [ @ EXCEPT !.kind = "manual", !.pc = "rejected" ] ]
            /\ UNCHANGED << is_running, scrape_lock, last_results, enabled,
                            table, classifier >>
       ELSE EnterRun(t, "manual")

\* The sources asked for by POST /scrape/{source}.
RequestedSources == { "remotive", "unknown" }

\* POST /scrape/{source}, up to `await scraper.scrape()` of
\* run_single_scraper: 404 for an unknown source, 409 while is_running.
TriggerSingleScrape(t, source) ==
    /\ tasks[t].pc = "new"
    /\ tasks' = [ tasks EXCEPT ![t] =
                    [ @ EXCEPT !.kind = "single", !.source = source,
                               !.pc = IF \A i \in 1..Len(JobSources) : JobSources[i] # source
                                        THEN "rejected"
                                      ELSE IF is_running THEN "rejected"
                                      ELSE "scrape" ] ]
    /\ UNCHANGED << is_running, scrape_lock, last_results, enabled, table,
                    classifier >>

\* The lock has been released and task t is the first of its waiters.
LockGranted(t) ==
    /\ tasks[t].pc = "waiting"
    /\ scrape_lock.holder = 0
    /\ scrape_lock.waiters # << >>
    /\ Head(scrape_lock.waiters) = t
    /\ BeginRun(t, tasks[t].kind, Tail(scrape_lock.waiters))

\* results.append(result) has been done for the current scraper (done is
\* the task after it): the loop goes on to the next scraper, or the run
\* stores its results, clears is_running in `finally`, releases the lock
\* and returns.
NextScraper(t, done) ==
    IF done.i < Len(done.scrapers)
    THEN /\ tasks' = [ tasks EXCEPT ![t] = [ done EXCEPT !.i = @ + 1, !.pc = "scrape" ] ]
         /\ UNCHANGED << is_running, scrape_lock, last_results >>
    ELSE /\ tasks' = [ tasks EXCEPT ![t] = [ done EXCEPT !.pc = "done" ] ]
         /\ last_results' = done.results
         /\ is_running' = AfterFinally(is_running)
         /\ scrape_lock' = [ scrape_lock EXCEPT !.holder = 0 ]

\* `result, jobs = await scraper.scrape()` returns in run_scrapers: with
\* jobs the run goes on to save them, without it appends the result.
ScrapeReturns(t, fetched) ==
    /\ InRun(t) /\ tasks[t].pc = "scrape"
    /\ LET r == Scrape(tasks[t].scrapers[tasks[t].i], fetched)
       IN  IF r[2] # << >>
           THEN /\ tasks' = [ tasks EXCEPT ![t] =
                                [ @ EXCEPT !.result = << r[1] >>, !.jobs = r[2],
                                           !.pc = "save" ] ]
                /\ UNCHANGED << is_running, scrape_lock, last_results >>
           ELSE NextScraper(t, [ tasks[t] EXCEPT !.results = Append(@, r[1]) ])
    /\ UNCHANGED << enabled, table, classifier >>

\* `await scraper.scrape()` or `await db.save_jobs(jobs)` raises an
\* Exception in run_scrapers: it is logged and a failed result is appended.
CallRaises(t) ==
    /\ InRun(t)
    /\ NextScraper(t, [ tasks[t] EXCEPT
                          !.results = @ \o FailedResult(tasks[t].scrapers[tasks[t].i]),
                          !.raised = @ \cup { tasks[t].i },
                          !.result = << >>, !.jobs = << >> ])
    /\ UNCHANGED << enabled, table, classifier >>

\* `added, updated = await db.save_jobs(jobs)` returns in run_scrapers.
SaveReturns(t) ==
    /\ InRun(t) /\ tasks[t].pc = "save"
    /\ LET saved == SaveJobs(table, tasks[t].scrapers[tasks[t].i], tasks[t].jobs,
                             Len(tasks[t].jobs))
       IN  /\ table' = saved[1]
           /\ NextScraper(t, [ tasks[t] EXCEPT
                                 !.results = Append(@, [ tasks[t].result[1] EXCEPT
                                                            !.jobs_added = saved[2],
                                                            !.jobs_updated = saved[3] ]),
                                 !.result = << >>, !.jobs = << >> ])
    /\ UNCHANGED << enabled, classifier >>

\* The task of a run is cancelled at its await: CancelledError is not an
\* Exception, it leaves the loop and the `try`; `finally` clears
\* is_running, the lock is released and the results collected so far are
\* lost with the frame.
RunCancelled(t) ==
    /\ InRun(t)
    /\ tasks' = [ tasks EXCEPT ![t] =
                    [ NewTask EXCEPT !.kind = tasks[t].kind, !.pc = "cancelled" ] ]
    /\ is_running' = AfterFinally(is_running)
    /\ scrape_lock' = [ scrape_lock EXCEPT !.holder = 0 ]
    /\ UNCHANGED << last_results, enabled, table, classifier >>

\* `result, jobs = await scraper.scrape()` returns in run_single_scraper.
SingleScrapeReturns(t, fetched) ==
    /\ InSingle(t) /\ tasks[t].pc = "scrape"
    /\ LET r == Scrape(tasks[t].source, fetched)
       IN  tasks' = [ tasks EXCEPT ![t] =
                        IF r[2] # << >>
                        THEN [ @ EXCEPT !.result = << r[1] >>, !.jobs = r[2],
                                        !.pc = "save" ]
                        ELSE [ @ EXCEPT !.results = << r[1] >>, !.pc = "done" ] ]
    /\ UNCHANGED << is_running, scrape_lock, last_results, enabled, table,
                    classifier >>

\* `await db.save_jobs(jobs)` returns in run_single_scraper.
SingleSaveReturns(t) ==
    /\ InSingle(t) /\ tasks[t].pc = "save"
    /\ LET saved == SaveJobs(table, tasks[t].source, tasks[t].jobs, Len(tasks[t].jobs))
       IN  /\ table' = saved[1]
           /\ tasks' = [ tasks EXCEPT ![t] =
                           [ @ EXCEPT !.results = << [ tasks[t].result[1] EXCEPT
                                                         !.jobs_added = saved[2],
                                                         !.jobs_updated = saved[3] ] >>,
                                      !.result = << >>, !.jobs = << >>,
                                      !.pc = "done" ] ]
    /\ UNCHANGED << is_running, scrape_lock, last_results, enabled, classifier >>

\* scrape() or save_jobs raises an Exception in run_single_scraper: a
\* failed result is returned.
SingleCallRaises(t) ==
    /\ InSingle(t)
    /\ tasks' = [ tasks EXCEPT ![t] =
                    [ @ EXCEPT !.results = FailedResult(tasks[t].source),
                               !.raised = { 1 }, !.result = << >>,
                               !.jobs = << >>, !.pc = "done" ] ]
    /\ UNCHANGED << is_running, scrape_lock, last_results, enabled, table,
                    classifier >>

\* A fetch that finds a job.
JobsFetched == { f \in Fetches : f.jobs # << >> }

\* The service under concurrent requests and scheduled runs, with the
\* sources that are always enabled, each of them up and holding a job.
InitService == ServiceStarted(MaxTasks, { AlwaysEnabled })

NextService ==
    \/ \E t \in DOMAIN tasks : ScheduledRun(t)
    \/ \E t \in DOMAIN tasks : TriggerScrape(t)
    \/ \E t \in DOMAIN tasks, source \in RequestedSources : TriggerSingleScrape(t, source)
    \/ \E t \in DOMAIN tasks : LockGranted(t)
    \/ \E t \in DOMAIN tasks, fetched \in JobsFetched : ScrapeReturns(t, fetched)
    \/ \E t \in DOMAIN tasks : SaveReturns(t)
    \/ \E t \in DOMAIN tasks : RunCancelled(t)
    \/ \E t \in DOMAIN tasks, fetched \in JobsFetched : SingleScrapeReturns(t, fetched)
    \/ \E t \in DOMAIN tasks : SingleSaveReturns(t)

SpecService == InitService /\ [][NextService]_vars

\* One scheduled run on its own, under every configuration and with every
\* outcome of its scrapers and of the database.
InitRun == ServiceStarted(1, EnabledConfigurations)

NextRun ==
    \/ ScheduledRun(1)
    \/ \E fetched \in Fetches : ScrapeReturns(1, fetched)
    \/ SaveReturns(1)
    \/ CallRaises(1)
    \/ RunCancelled(1)

SpecRun == InitRun /\ [][NextRun]_vars

\* Largest number of requests and scheduled runs started while every call
\* that is awaited comes back.
MaxFairTasks == 2

InitFair == ServiceStarted(MaxFairTasks, { AlwaysEnabled })

\* The call that task t awaits in a run returns or raises.
AwaitEnds(t) ==
    \/ \E fetched \in JobsFetched : ScrapeReturns(t, fetched)
    \/ SaveReturns(t)
    \/ CallRaises(t)
    \/ RunCancelled(t)

NextFair ==
    \/ \E t \in DOMAIN tasks : ScheduledRun(t)
    \/ \E t \in DOMAIN tasks : TriggerScrape(t)
    \/ \E t \in DOMAIN tasks, source \in RequestedSources : TriggerSingleScrape(t, source)
    \/ \E t \in DOMAIN tasks : LockGranted(t)
    \/ \E t \in DOMAIN tasks : AwaitEnds(t)
    \/ \E t \in DOMAIN tasks, fetched \in JobsFetched : SingleScrapeReturns(t, fetched)
    \/ \E t \in DOMAIN tasks : SingleSaveReturns(t)
    \/ \E t \in DOMAIN tasks : SingleCallRaises(t)

\* Each scraper and database call of a run returns or raises, and the
\* event loop resumes the first waiter of a lock that has been released
\* (at most one run awaits a call and at most one waiter is first).
SpecFair ==
    /\ InitFair
    /\ [][NextFair]_vars
    /\ WF_vars(\E t \in DOMAIN tasks : AwaitEnds(t))
    /\ WF_vars(\E t \in DOMAIN tasks : LockGranted(t))

-----------------------------------------------------------------------------
(* Database.save_jobs statement by statement: database.py *)

\* Largest number of save_jobs calls in progress on the same pool.
MaxSavers == 2

\* The sourceId values of the jobs of one source.
SourceIds == { "job-1", "job-2" }

\* The lists of jobs that the calls save: scrapes of the same source.
JobLists == { << >>, << "job-1" >>, << "job-1", "job-2" >>, << "job-2", "job-1" >> }

\* job_listings before the calls, as sequential saves leave it: no row or
\* one row for each (source, sourceId).
SavedTables == [ SourceIds -> { 0, 1 } ]

\* A call of save_jobs that has not started.
NewSaver ==
    [ pc |-> "new", jobs |-> << >>, i |-> 0, existing |-> FALSE,
      added |-> 0, updated |-> 0, raised |-> << >> ]

InitSave ==
    /\ is_running = FALSE
    /\ scrape_lock = [ holder |-> 0, waiters |-> << >> ]
    /\ tasks = [ t \in 1..MaxSavers |-> NewSaver ]
    /\ last_results = << >>
    /\ enabled = AlwaysEnabled
    /\ table \in SavedTables
    /\ job = JobInput(<< >>, << >>, None, None, None)
    /\ pc = "save_jobs"
    /\ InitLocals
    /\ years_level = NoLevel
    /\ salary_band = "None"
    /\ frames = << >>
    /\ calls = << >>
    /\ batch = << >>
    /\ index = 0
    /\ classified_jobs = << >>
    /\ stats = << >>

\* The loop of save_jobs goes on to the next job, or the call returns
\* (added, updated) after the last one.
NextJob(saver) ==
    IF saver.i = Len(saver.jobs)
    THEN [ saver EXCEPT !.pc = "done" ]
    ELSE [ saver EXCEPT !.i = @ + 1, !.pc = "select" ]

\* save_jobs(jobs) is called: it returns 0, 0 for an empty list, otherwise
\* it takes a connection and starts with the first job.
SaveJobsCalled(t, jobs) ==
    /\ tasks[t].pc = "new"
    /\ tasks' = [ tasks EXCEPT ![t] = NextJob([ @ EXCEPT !.jobs = jobs ]) ]
    /\ UNCHANGED << is_running, scrape_lock, last_results, enabled, table,
                    classifier >>

\* `await conn.fetchval(SELECT id ...)` returns: existing is whether the
\* table holds a row with the key of the job at that moment.
SelectReturns(t) ==
    /\ tasks[t].pc = "select"
    /\ tasks' = [ tasks EXCEPT ![t] =
                    [ @ EXCEPT !.existing = table[tasks[t].jobs[tasks[t].i]] > 0,
                               !.pc = "write" ] ]
    /\ UNCHANGED << is_running, scrape_lock, last_results, enabled, table,
                    classifier >>

\* `if existing`: the UPDATE returns.  It changes the rows of the key and
\* adds none.
UpdateReturns(t) ==
    /\ tasks[t].pc = "write" /\ tasks[t].existing
    /\ tasks' = [ tasks EXCEPT ![t] = NextJob([ @ EXCEPT !.updated = @ + 1 ]) ]
    /\ UNCHANGED << is_running, scrape_lock, last_results, enabled, table,
                    classifier >>

\* `else`: the INSERT returns, with one more row for the key.  When a row
\* of the key has appeared since the SELECT, this is what a table without
\* a unique index on (source, sourceId) does.
InsertReturns(t) ==
    /\ tasks[t].pc = "write" /\ ~tasks[t].existing
    /\ table' = [ table EXCEPT ![tasks[t].jobs[tasks[t].i]] = @ + 1 ]
    /\ tasks' = [ tasks EXCEPT ![t] = NextJob([ @ EXCEPT !.added = @ + 1 ]) ]
    /\ UNCHANGED << is_running, scrape_lock, last_results, enabled, classifier >>

\* `else`: the INSERT raises because a row of the key has appeared since
\* the SELECT: what a table with a unique index on (source, sourceId)
\* does.  `except Exception` logs the error and continues with the next
\* job: the job is counted neither as added nor as updated.
InsertRaises(t) ==
    /\ tasks[t].pc = "write" /\ ~tasks[t].existing
    /\ table[tasks[t].jobs[tasks[t].i]] > 0
    /\ tasks' = [ tasks EXCEPT ![t] =
                    NextJob([ @ EXCEPT !.raised = Append(@, "UniqueViolationError") ]) ]
    /\ UNCHANGED << is_running, scrape_lock, last_results, enabled, table,
                    classifier >>

\* A statement raises for another reason (the connection is lost, a value
\* is rejected): the same handler continues with the next job.
StatementRaises(t) ==
    /\ tasks[t].pc \in { "select", "write" }
    /\ tasks' = [ tasks EXCEPT ![t] =
                    NextJob([ @ EXCEPT !.raised = Append(@, "PostgresError") ]) ]
    /\ UNCHANGED << is_running, scrape_lock, last_results, enabled, table,
                    classifier >>

NextSave ==
    \/ \E t \in DOMAIN tasks, jobs \in JobLists : SaveJobsCalled(t, jobs)
    \/ \E t \in DOMAIN tasks : SelectReturns(t)
    \/ \E t \in DOMAIN tasks : UpdateReturns(t)
    \/ \E t \in DOMAIN tasks : InsertReturns(t)
    \/ \E t \in DOMAIN tasks : InsertRaises(t)
    \/ \E t \in DOMAIN tasks : StatementRaises(t)

SpecSave == InitSave /\ [][NextSave]_vars

-----------------------------------------------------------------------------
(* Properties of classify_job and classify_job_with_company *)

\* classify_job has returned (base_result is its result).
Returned == pc \in { "returned", "done" }

\* The audience tag of a level, as the specification states the mapping.
TagOf(level) ==
    IF level = ENTRY THEN "genz"
    ELSE IF level = MID THEN "mid_career"
    ELSE IF level = SENIOR THEN "senior"
    ELSE "executive"

\* Which extractors fired (returned a non-null level), and their count.
TitleFired == title_level # NoLevel
YearsFired == years # None
SalaryFired == salary_level # NoLevel
DescriptionFired == desc_level # NoLevel

B2N(b) == IF b THEN 1 ELSE 0

FiredCount == B2N(TitleFired) + B2N(YearsFired) + B2N(SalaryFired) + B2N(DescriptionFired)

\* Position of a level in the declaration order ENTRY, MID, SENIOR, EXECUTIVE.
LevelIndex(level) == CHOOSE i \in 1..Len(ExperienceLevel) : ExperienceLevel[i] = level

TagsWellFormed(r) ==
    /\ r.audience_tags # {}
    /\ r.experience_level \in LevelSet
    /\ TagOf(r.experience_level) \in r.audience_tags
    /\ Cardinality(r.audience_tags \ { TagOf(r.experience_level) }) <= 1
    /\ r.audience_tags \subseteq { "genz", "mid_career", "senior", "executive" }

\* C1: the audience_tags of the result of classify_job and of
\* classify_job_with_company are never empty, contain the tag mapped from
\* the returned experience_level, and contain at most one further tag.
C1_AudienceTagsWellFormed ==
    /\ Returned => TagsWellFormed(base_result)
    /\ pc = "done" => TagsWellFormed(final_result)

\* A dual-tagged base verdict and a company override on the same job.
C1_Witness ==
    /\ pc = "done"
    /\ Cardinality(base_result.audience_tags) = 2
    /\ final_result # base_result
    /\ final_result.audience_tags = { "genz" }

\* C2: the winning level has the maximal score, and among levels sharing
\* the maximal nonzero score the earliest in declaration order is returned.
C2_WinnerIsFirstArgmax ==
    Returned =>
        LET w == base_result.experience_level
        IN  /\ w \in LevelSet
            /\ \A l \in LevelSet : scores[w] >= scores[l]
            /\ scores[w] > 0 =>
                 \A l \in LevelSet :
                     scores[l] = scores[w] => LevelIndex(w) <= LevelIndex(l)

\* A tie at 13: title 10 + description 3 on one level, years 8 + salary 5
\* on an earlier level, which is the one returned.
C2_Witness ==
    /\ pc = "returned"
    /\ TitleFired /\ YearsFired /\ SalaryFired /\ DescriptionFired
    /\ title_level = desc_level
    /\ salary_level = years_to_level(years[1])
    /\ title_level # salary_level
    /\ scores[title_level] = 13 /\ scores[salary_level] = 13
    /\ LevelIndex(title_level) > LevelIndex(salary_level)
    /\ base_result.experience_level = salary_level

FracEq(a, b) == a.num * b.den = b.num * a.den

\* C3 (as claimed): the confidence is winning_score / total_weight,
\* multiplied by 0.9 exactly when exactly one of the four extractors
\* fired; with two or more extractors fired there is no penalty, also when
\* they all voted for the same level.
C3_PenaltyIffOneExtractorFired ==
    (Returned /\ total_weight > 0) =>
        IF FiredCount = 1
        THEN FracEq(confidence, Frac(9 * max_score, 10 * total_weight))
        ELSE FracEq(confidence, Frac(max_score, total_weight))

\* C4: when none of the four extractors fires, classify_job returns MID,
\* exactly [mid_career], confidence exactly 0.3, and no dual tag.
C4_NoSignalDefault ==
    (Returned /\ ~TitleFired /\ ~YearsFired /\ ~SalaryFired /\ ~DescriptionFired) =>
        /\ base_result.experience_level = MID
        /\ base_result.audience_tags = { "mid_career" }
        /\ base_result.confidence = 30
        /\ FracEq(confidence, Frac(3, 10))

\* No extractor fires, although a salary bound (0) is given.
C4_Witness ==
    /\ pc = "returned"
    /\ ~TitleFired /\ ~YearsFired /\ ~SalaryFired /\ ~DescriptionFired
    /\ job.salary_min = Some(0)
    /\ base_result.confidence = 30

\* The weight that the extractors that fired put on a level.
WeightOn(level) ==
      (IF TitleFired /\ title_level = level THEN 10 ELSE 0)
    + (IF YearsFired /\ years_to_level(years[1]) = level THEN 8 ELSE 0)
    + (IF SalaryFired /\ salary_level = level THEN 5 ELSE 0)
    + (IF DescriptionFired /\ desc_level = level THEN 3 ELSE 0)

FiredWeight ==
    10 * B2N(TitleFired) + 8 * B2N(YearsFired) + 5 * B2N(SalaryFired)
      + 3 * B2N(DescriptionFired)

\* C5: each extractor that fired adds its full weight to the score of
\* exactly one level and to total_weight, the others add nothing: the four
\* scores sum to total_weight, the sum of the weights of those that fired.
C5_FullWeights ==
    (pc \in { "decide", "returned", "done" }) =>
        /\ \A l \in LevelSet : scores[l] = WeightOn(l)
        /\ scores[ENTRY] + scores[MID] + scores[SENIOR] + scores[EXECUTIVE] = total_weight
        /\ total_weight = FiredWeight

\* All four extractors fired, two of them for the same level.
C5_Witness ==
    /\ pc = "returned"
    /\ FiredCount = 4
    /\ total_weight = 26
    /\ \E l \in LevelSet : scores[l] = 15

\* The highest score among a non-empty set of levels.
TopScore(levels) == CHOOSE s \in { scores[l] : l \in levels } :
                        \A l \in levels : s >= scores[l]

\* C6: a second audience tag is added exactly when the unrounded
\* confidence is below 0.5, total_weight > 0, at least two levels have a
\* nonzero score and the two highest scores differ by at most 3; it is the
\* tag of the second-highest-scoring level; otherwise audience_tags is only
\* the winning level's tag.
C6_DualTagging ==
    Returned =>
        LET w      == base_result.experience_level
            others == LevelSet \ { w }
            dual   == /\ 2 * confidence.num < confidence.den
                      /\ total_weight > 0
                      /\ Cardinality({ l \in LevelSet : scores[l] > 0 }) >= 2
                      /\ scores[w] - TopScore(others) <= 3
        IN  IF dual
            THEN \E s \in others :
                    /\ scores[s] > 0
                    /\ scores[s] = TopScore(others)
                    /\ base_result.audience_tags = { TagOf(w), TagOf(s) }
            ELSE base_result.audience_tags = { TagOf(w) }

\* A dual-tagged verdict: three levels scored, confidence 11/26.
C6_Witness ==
    /\ pc = "returned"
    /\ Cardinality(base_result.audience_tags) = 2
    /\ max_score = 11
    /\ total_weight = 26

\* C7: the confidence returned by classify_job and by
\* classify_job_with_company lies in [0.0, 1.0].
C7_ConfidenceInUnitInterval ==
    /\ Returned => /\ base_result.confidence \in 0..100
                   /\ 0 <= confidence.num /\ confidence.num <= confidence.den
    /\ pc = "done" => final_result.confidence \in 0..100

\* The company override raises a low base confidence to 0.7.
C7_Witness ==
    /\ pc = "done"
    /\ base_result.confidence < 50
    /\ final_result.confidence = 70

\* The conditions of the retail/service manager override, on the job and on
\* the salary level found by the salary extractor.
RetailCompany ==
    /\ job.company # None
    /\ \E i \in 1..Len(RETAIL_SERVICE_COMPANIES) :
          Contains(Lower(job.company[1]), RETAIL_SERVICE_COMPANIES[i])

ManagerNotGeneral ==
    /\ Contains(Lower(job.title), <<"m","a","n","a","g","e","r">>)
    /\ ~Contains(Lower(job.title),
                 <<"g","e","n","e","r","a","l"," ","m","a","n","a","g","e","r">>)

RetailManagerCase ==
    /\ pc = "done"
    /\ RetailCompany
    /\ ManagerNotGeneral
    /\ salary_level \in { NoLevel, ENTRY }

\* C11: when the company is on the retail/service list, the title contains
\* 'manager' but not 'general manager' and the salary level is absent or
\* ENTRY, classify_job_with_company returns ENTRY, tags exactly genz,
\* confidence max(base confidence, 0.7), the base title_match,
\* years_required and salary_band, and the base description_signals
\* followed by 'retail/service manager context'.
C11_RetailManagerOverride ==
    RetailManagerCase =>
        /\ final_result.experience_level = ENTRY
        /\ final_result.audience_tags = { "genz" }
        /\ final_result.confidence >= 70
        /\ final_result.confidence >= base_result.confidence
        /\ final_result.confidence \in { base_result.confidence, 70 }
        /\ final_result.signals.title_match = base_result.signals.title_match
        /\ final_result.signals.years_required = base_result.signals.years_required
        /\ final_result.signals.salary_band = base_result.signals.salary_band
        /\ final_result.signals.description_signals =
              Append(base_result.signals.description_signals,
                     <<"r","e","t","a","i","l","/","s","e","r","v","i","c","e"," ",
                       "m","a","n","a","g","e","r"," ","c","o","n","t","e","x","t">>)

\* 'Store Manager' at McDonald's without salary and with a description that
\* carries signals: the base verdict MID with confidence above 0.7 is
\* overridden and keeps its confidence.
C11_Witness ==
    /\ RetailManagerCase
    /\ job.title = <<"S","t","o","r","e"," ","M","a","n","a","g","e","r">>
    /\ base_result.experience_level = MID
    /\ base_result.confidence > 70
    /\ base_result.signals.description_signals # << >>
    /\ final_result.experience_level = ENTRY
    /\ final_result.confidence = base_result.confidence

\* C22: when the override condition does not hold (the company is absent or
\* not on the retail/service list, or the title has no 'manager', or it has
\* 'general manager', or the salary level is MID, SENIOR or EXECUTIVE),
\* classify_job_with_company returns the result of classify_job, equal in
\* every field.
C22_NoOverrideReturnsBase ==
    pc = "done" /\ ~(RetailCompany /\ ManagerNotGeneral
                       /\ salary_level \in { NoLevel, ENTRY })
        => final_result = base_result

\* 'Store Manager' at McDonald's with a salary of 50000 to 100000, whose
\* level is MID: the base result is returned as it is.
C22_Witness ==
    /\ pc = "done"
    /\ RetailCompany
    /\ ManagerNotGeneral
    /\ job.salary_min = Some(50000) /\ job.salary_max = Some(100000)
    /\ salary_level = MID
    /\ final_result = base_result
    /\ final_result.experience_level = MID

\* C23: in every result of classify_job each diagnostic field is set exactly
\* when its extractor fired and added its weight: title_match with the
\* title's 10, years_required with the years' 8, salary_band with the
\* salary's 5 and a non-empty description_signals with the description's 3;
\* the total weight is the sum of the weights of the fields that are set.
C23_DiagnosticsIffFired ==
    Returned =>
        LET s == base_result.signals
        IN  /\ s.title_match # None <=> TitleFired
            /\ s.years_required # None <=> YearsFired
            /\ s.salary_band # "None" <=> SalaryFired
            /\ s.description_signals # << >> <=> DescriptionFired
            /\ total_weight = TitleWeight * B2N(s.title_match # None)
                              + YearsWeight * B2N(s.years_required # None)
                              + SalaryWeight * B2N(s.salary_band # "None")
                              + DescriptionWeight * B2N(s.description_signals # << >>)
            /\ total_weight = scores[ENTRY] + scores[MID] + scores[SENIOR]
                              + scores[EXECUTIVE]

\* A result with the title and salary diagnostics set and the years and
\* description diagnostics unset: total weight 15.
C23_Witness ==
    /\ Returned
    /\ base_result.signals.title_match # None
    /\ base_result.signals.salary_band # "None"
    /\ base_result.signals.years_required = None
    /\ base_result.signals.description_signals = << >>
    /\ TitleFired /\ SalaryFired /\ ~YearsFired /\ ~DescriptionFired
    /\ total_weight = 15

\* The number of audience tags follows the confidence of the result: two
\* tags below 0.5, one tag from 0.5 on.
TagCountByConfidence ==
    IF base_result.confidence < 50
    THEN Cardinality(base_result.audience_tags) = 2
    ELSE Cardinality(base_result.audience_tags) = 1

\* C24 as stated: for every input, the result of classify_job carries
\* exactly two audience tags when its confidence is below 0.5 and exactly
\* one tag when its confidence is 0.5 or more.
C24_TagCountByConfidence == Returned => TagCountByConfidence

\* C24, amended: for every input on which at least one extractor fired, the
\* result carries exactly two tags when its confidence is below 0.5 and
\* exactly one otherwise, and whenever the confidence is below 0.5 the two
\* highest scores differ by at most 3; a job on which no extractor fired
\* has confidence 0.3 and the single tag mid_career.
C24_TagCountByConfidenceWithSignals ==
    Returned =>
        /\ total_weight > 0 =>
              /\ TagCountByConfidence
              /\ base_result.confidence < 50 <=> 2 * confidence.num < confidence.den
              /\ base_result.confidence < 50 =>
                    /\ Cardinality({ l \in LevelSet : scores[l] > 0 }) >= 2
                    /\ scores[base_result.experience_level]
                         - TopScore(LevelSet \ { base_result.experience_level }) <= 3
        /\ total_weight = 0 =>
              /\ base_result.confidence = 30
              /\ base_result.audience_tags = { "mid_career" }

\* All four extractors fired on four levels: confidence 10/26 and two
\* tags, the two highest scores being 10 and 8.
C24_Witness ==
    /\ Returned
    /\ total_weight = 26
    /\ max_score = 10
    /\ base_result.confidence = 38
    /\ Cardinality(base_result.audience_tags) = 2

-----------------------------------------------------------------------------
(* Properties of parse_years_required and years_to_level *)

\* parse_years_required has returned for the text job.description.
Parsed == pc = "parsed"

\* A number of the text, as the patterns read it: a run of one or two digits.
NumbersOf(t) ==
    { IntAt(t, i, DigitRun(t, i)) : i \in { k \in 1..Len(t) : IsDigitAt(t, k) } }

\* C12: every result of parse_years_required that is not None has min and
\* max in 0..25; a number of the text outside 0..25 never appears in it.
C12_YearsWithinRange ==
    Parsed /\ years # None =>
        /\ years[1].min \in 0..25
        /\ years[1].max \in 0..25
        /\ \A n \in NumbersOf(job.description) :
              n > 25 => n # years[1].min /\ n # years[1].max

\* '30-40 years. Minimum 7 years. ' gives {7, 10}: the numbers 30 and 40
\* are dropped and a later pattern decides.
C12_Witness ==
    /\ Parsed
    /\ job.description = <<"3","0","-","4","0"," ","y","e","a","r","s","."," ","M","i","n","i","m","u","m"," ","7"," ","y","e","a","r","s","."," ">>
    /\ years = Some([min |-> 7, max |-> 10])

\* The five patterns in the order of evaluation.
YearsPatterns == << "none", "range", "plus", "min", "simple" >>

\* Pattern k matches the lower-cased text t.
PatternMatches(k, t) ==
    IF YearsPatterns[k] = "none" THEN NoExperiencePattern(t)
    ELSE Search(t, YearsPatterns[k]) # << >>

Cap25(n) == IF n < 25 THEN n ELSE 25

\* The pair that a match of pattern k stands for: {0,0}, {X,Y},
\* {X, min(X+5,25)}, {X, min(X+3,25)}, {X,X}.
PatternPair(k, t) ==
    LET g == IF YearsPatterns[k] = "none" THEN << >> ELSE Search(t, YearsPatterns[k])
    IN  CASE YearsPatterns[k] = "none" -> [min |-> 0, max |-> 0]
          [] YearsPatterns[k] = "range" -> [min |-> g[1], max |-> g[2]]
          [] YearsPatterns[k] = "plus" -> [min |-> g[1], max |-> Cap25(g[1] + 5)]
          [] YearsPatterns[k] = "min" -> [min |-> g[1], max |-> Cap25(g[1] + 3)]
          [] YearsPatterns[k] = "simple" -> [min |-> g[1], max |-> g[1]]

\* The result when the first pattern of a set of usable patterns decides.
FirstOf(usable, t) ==
    IF usable = {} THEN None ELSE Some(PatternPair(Least(usable), t))

\* C13 (as claimed): the first pattern, in the order no-experience, 'X-Y
\* years', 'X+ years', 'minimum X years', 'X years experience', that
\* matches the text determines the result, None when none matches.
C13_FirstMatchDecides ==
    Parsed =>
        LET t == Lower(job.description)
        IN  years = FirstOf({ k \in 1..Len(YearsPatterns) : PatternMatches(k, t) }, t)

\* The numbers of the leftmost match of pattern k are all within 0..25.
PatternReasonable(k, t) ==
    \/ YearsPatterns[k] = "none"
    \/ LET g == Search(t, YearsPatterns[k])
       IN  \A n \in 1..Len(g) : g[n] \in 0..25

\* C13 (amended): the first pattern, in that order, whose leftmost match in
\* the text has all its numbers within 0..25 determines the result; None
\* when there is no such pattern.
C13_FirstReasonableMatchDecides ==
    Parsed =>
        LET t == Lower(job.description)
        IN  years = FirstOf({ k \in 1..Len(YearsPatterns) :
                                PatternMatches(k, t) /\ PatternReasonable(k, t) }, t)

\* '5+ years of experience. 3-5 years. ' gives {3, 5}: both patterns match
\* and the range pattern is the earlier one.
C13_Witness ==
    /\ Parsed
    /\ job.description = <<"5","+"," ","y","e","a","r","s"," ","o","f"," ","e","x","p","e","r","i","e","n","c","e","."," ","3","-","5"," ","y","e","a","r","s","."," ">>
    /\ years = Some([min |-> 3, max |-> 5])

\* The level of an average given as its double, by the thresholds 2, 5
\* and 10.
LevelOfTwiceAverage(s) ==
    CHOOSE l \in LevelSet :
        /\ l = ENTRY <=> s <= 4
        /\ l = MID <=> s > 4 /\ s <= 10
        /\ l = SENIOR <=> s > 10 /\ s <= 20
        /\ l = EXECUTIVE <=> s > 20

\* C14: for every pair with both bounds in 0..25, years_to_level returns
\* ENTRY when (min+max)/2 <= 2, MID when it is > 2 and <= 5, SENIOR when it
\* is > 5 and <= 10, EXECUTIVE otherwise; half-integer averages are not
\* truncated.
C14_YearsToLevelBrackets ==
    pc = "levelled" =>
        /\ years[1].min \in 0..25 /\ years[1].max \in 0..25
        /\ years_level = LevelOfTwiceAverage(years[1].min + years[1].max)

\* The pair {2, 3} has average 2.5 and is MID.
C14_Witness ==
    /\ pc = "levelled"
    /\ years = Some([min |-> 2, max |-> 3])
    /\ years_level = MID

\* C25: every pair returned by parse_years_required that is not None has
\* min <= max, for every text and every pattern.
C25_MinAtMostMax ==
    Parsed /\ years # None => years[1].min <= years[1].max

-----------------------------------------------------------------------------
(* Properties of salary_to_level and get_salary_band *)

\* The band string that names the bracket of a level.
BandOf(level) ==
    CASE level = ENTRY -> "<$60k (entry)"
      [] level = MID -> "$60k-$100k (mid)"
      [] level = SENIOR -> "$100k-$200k (senior)"
      [] level = EXECUTIVE -> ">$200k (executive)"
      [] OTHER -> "None"

\* The bracket of twice a point estimate, split at 60000, 100000, 200000.
BracketOfTwice(s2) ==
    IF s2 < 120000 THEN ENTRY
    ELSE IF s2 < 200000 THEN MID
    ELSE IF s2 < 400000 THEN SENIOR
    ELSE EXECUTIVE

\* The pair holds the value v and nothing else: (v, None), (None, v), (v, v).
OnlyValue(v) ==
    /\ job.salary_min \in { None, Some(v) }
    /\ job.salary_max \in { None, Some(v) }
    /\ << job.salary_min, job.salary_max >> # << None, None >>

\* C15: salary_to_level and get_salary_band agree on every pair: both are
\* None or neither is, the band names the bracket of the level, and the
\* brackets are split at 60000, 100000 and 200000 (59999 is ENTRY, 60000
\* and 99999 are MID, 100000 is SENIOR, 200000 is EXECUTIVE).
C15_LevelAndBandAgree ==
    pc = "banded" =>
        /\ salary_level = NoLevel <=> salary_band = "None"
        /\ salary_band = BandOf(salary_level)
        /\ \A v \in SalaryPoints \ { 0 } :
              OnlyValue(v) => salary_level = BracketOfTwice(2 * v)

\* 60000 alone is MID with the band '$60k-$100k (mid)'.
C15_Witness ==
    /\ pc = "banded"
    /\ job.salary_min = Some(60000)
    /\ job.salary_max = None
    /\ salary_level = MID
    /\ salary_band = "$60k-$100k (mid)"

\* C16: salary_to_level classifies the mean of salary_min and salary_max
\* when both are present (not None) and the single present bound when only
\* one is, a present bound equal to 0 included.
C16_MeanOfPresentBounds ==
    pc \in { "get_salary_band", "banded" } =>
        salary_level =
            IF job.salary_min # None /\ job.salary_max # None
              THEN BracketOfTwice(job.salary_min[1] + job.salary_max[1])
            ELSE IF job.salary_min # None THEN BracketOfTwice(2 * job.salary_min[1])
            ELSE IF job.salary_max # None THEN BracketOfTwice(2 * job.salary_max[1])
            ELSE NoLevel

-----------------------------------------------------------------------------
(* Properties of analyze_description_signals *)

\* The categories in the order of priority, and their phrase lists.
DescriptionPriority == << EXECUTIVE, SENIOR, ENTRY, MID >>

DescriptionPhrases(level) ==
    CASE level = EXECUTIVE -> DESCRIPTION_SIGNALS_executive
      [] level = SENIOR -> DESCRIPTION_SIGNALS_senior
      [] level = ENTRY -> DESCRIPTION_SIGNALS_entry
      [] level = MID -> DESCRIPTION_SIGNALS_mid

\* The phrases of a category that occur in the lower-cased description.
Occurring(level) ==
    { DescriptionPhrases(level)[i] : i \in
        { k \in 1..Len(DescriptionPhrases(level)) :
            Contains(Lower(job.description), DescriptionPhrases(level)[k]) } }

Range(seq) == { seq[i] : i \in 1..Len(seq) }

\* C17: analyze_description_signals returns the first category, in the
\* order EXECUTIVE, SENIOR, ENTRY, MID, of which a phrase occurs in the
\* description, with exactly the phrases of that category that occur and
\* none of another category; the level is None exactly when the list of
\* matches is empty.
C17_DescriptionCategoryPriority ==
    pc = "description_analyzed" =>
        LET present == { k \in 1..Len(DescriptionPriority) :
                           Occurring(DescriptionPriority[k]) # {} }
        IN  /\ desc_level = NoLevel <=> desc_matches = << >>
            /\ IF present = {}
                 THEN desc_level = NoLevel
                 ELSE /\ desc_level = DescriptionPriority[Least(present)]
                      /\ Range(desc_matches) = Occurring(desc_level)
                      /\ Len(desc_matches) = Cardinality(Occurring(desc_level))

\* 'Will train. Board of directors. ' holds an entry and an executive
\* phrase: the result is EXECUTIVE with the executive phrase alone.
C17_Witness ==
    /\ pc = "description_analyzed"
    /\ job.description = <<"W","i","l","l"," ","t","r","a","i","n","."," ","B","o","a","r","d"," ","o","f"," ","d","i","r","e","c","t","o","r","s","."," ">>
    /\ desc_level = EXECUTIVE
    /\ desc_matches = << <<"b","o","a","r","d"," ","o","f"," ","d","i","r","e","c","t","o","r","s">> >>

-----------------------------------------------------------------------------
(* Properties of sequences of classify_job calls *)

\* C18: two calls of classify_job on equal JobInput values, with any other
\* calls in between, return equal results: the same experience_level, the
\* same set of audience_tags, the same confidence and the same signals.
C18_EqualInputsEqualResults ==
    \A a \in 1..Len(calls), b \in 1..Len(calls) :
        calls[a].job = calls[b].job =>
            /\ calls[a].result.experience_level = calls[b].result.experience_level
            /\ calls[a].result.audience_tags = calls[b].result.audience_tags
            /\ calls[a].result.confidence = calls[b].result.confidence
            /\ calls[a].result.signals = calls[b].result.signals

\* The same job is classified first and third, another job with other
\* signals in between.
C18_Witness ==
    /\ Len(calls) = 3
    /\ calls[1].job = calls[3].job
    /\ calls[2].job # calls[1].job
    /\ calls[2].result.experience_level # calls[1].result.experience_level
    /\ calls[1].result.signals.title_match # None
    /\ calls[3].result = calls[1].result

-----------------------------------------------------------------------------
(* Properties of a batch classified by concurrent workers *)

\* C19: whatever the order and interleaving of the workers, the verdict of
\* each job of the batch equals the verdict of classify_job_with_company on
\* that job alone, and a finished batch has one verdict for each job.
C19_VerdictsAsAlone ==
    /\ \A c \in 1..Len(calls) :
          /\ calls[c].job = batch[calls[c].index]
          /\ calls[c].result = classify_job_with_company(calls[c].job)
    /\ (\A k \in 1..Len(batch) : pc[k] = "finished") =>
          { calls[c].index : c \in 1..Len(calls) } = 1..Len(batch)

\* The second job of the batch got its verdict while the first, a different
\* job, is in the middle of its call with weight already accumulated.
C19_Witness ==
    /\ Len(batch) = 2
    /\ batch[1] # batch[2]
    /\ Len(calls) = 1
    /\ calls[1].index = 2
    /\ calls[1].result.experience_level = ENTRY
    /\ pc[1] = "description"
    /\ frames[1].total_weight > 0

-----------------------------------------------------------------------------
(* Properties of BaseScraper.classify_jobs *)

\* C20: classify_jobs returns the jobs of the input in the same order, as
\* many as the input has; a job whose classification raised has level MID,
\* audience_tags [mid_career] and confidence 0.3, and every other job,
\* those after a failed one included, carries its verdict.
C20_BatchSurvivesBadRecord ==
    pc = "classified" =>
        /\ Len(classified_jobs) = Len(batch)
        /\ \A k \in 1..Len(batch) :
              /\ classified_jobs[k] = k
              /\ batch[k].external_id = k
              /\ IF batch[k].title = None
                   THEN /\ batch[k].classified_level = MID
                        /\ batch[k].audience_tags = { "mid_career" }
                        /\ batch[k].classification_confidence = Some(30)
                   ELSE LET v == classify_job_with_company(JobInputOf(batch[k]))
                        IN  /\ batch[k].classified_level = v.experience_level
                            /\ batch[k].audience_tags = v.audience_tags
                            /\ batch[k].classification_confidence = Some(v.confidence)

\* A bad record first and an internship after it: the first is defaulted
\* and the second is classified ENTRY.
C20_Witness ==
    /\ pc = "classified"
    /\ Len(batch) = 2
    /\ batch[1].title = None
    /\ batch[1].classified_level = MID
    /\ batch[2].title = Some(<<"I","n","t","e","r","n">>)
    /\ batch[2].classified_level = ENTRY
    /\ batch[2].classification_confidence = Some(90)
    /\ classified_jobs = << 1, 2 >>
    /\ stats[ENTRY] = 1 /\ stats[MID] = 0

-----------------------------------------------------------------------------
(* Properties of analyze_title_signals *)

Analyzed == pc = "analyzed"

\* The lower-cased title contains some phrase of a list.
HasPhrase(list) ==
    \E i \in 1..Len(list) : Contains(Lower(job.title), list[i])

\* The abbreviation occurs in the lower-cased title as a whole word: no
\* letter, digit or underscore stands directly before or after it.
WholeWord(abbrev) ==
    LET t == Lower(job.title)
    IN  \E i \in 1..Len(t) :
            /\ LitAt(t, i, abbrev)
            /\ i = 1 \/ ~IsWordChar(t[i - 1])
            /\ i + Len(abbrev) > Len(t) \/ ~IsWordChar(t[i + Len(abbrev)])

\* The rules of the title extractor, in the priority order of the
\* specification.
Rule_Blocklist == HasPhrase(SENIOR_BLOCKLIST)
Rule_Abbreviation ==
    \E i \in 1..Len(EXECUTIVE_WORD_BOUNDARY_SIGNALS) :
        WholeWord(EXECUTIVE_WORD_BOUNDARY_SIGNALS[i])
Rule_Executive == HasPhrase(TITLE_SIGNALS_executive)
Rule_Senior == HasPhrase(TITLE_SIGNALS_senior)
Rule_Entry == HasPhrase(TITLE_SIGNALS_entry)
Rule_Mid == HasPhrase(TITLE_SIGNALS_mid)

\* C8: analyze_title_signals returns the level of the first rule that
\* matches in the order blocklist, executive abbreviations, EXECUTIVE
\* phrases, SENIOR phrases, ENTRY phrases, MID phrases, and (None, None)
\* only when no rule matches.
C8_TitlePriorityOrder ==
    Analyzed =>
        /\ title_level =
             IF Rule_Blocklist THEN (IF Rule_Entry THEN ENTRY ELSE MID)
             ELSE IF Rule_Abbreviation THEN EXECUTIVE
             ELSE IF Rule_Executive THEN EXECUTIVE
             ELSE IF Rule_Senior THEN SENIOR
             ELSE IF Rule_Entry THEN ENTRY
             ELSE IF Rule_Mid THEN MID
             ELSE NoLevel
        /\ (title_level = NoLevel /\ title_match = None) <=>
             ~(Rule_Blocklist \/ Rule_Abbreviation \/ Rule_Executive
                 \/ Rule_Senior \/ Rule_Entry \/ Rule_Mid)
        /\ title_level = NoLevel <=> title_match = None

\* 'Senior Analyst' holds a SENIOR and a MID phrase and yields SENIOR.
C8_Witness ==
    /\ Analyzed
    /\ job.title = <<"S","e","n","i","o","r"," ","A","n","a","l","y","s","t">>
    /\ Rule_Senior /\ Rule_Mid
    /\ title_level = SENIOR
    /\ title_match = Some(<<"s","e","n","i","o","r">>)

\* The first phrase of a list, in list order, that the lower-cased title
\* contains (the list holds one).
FirstPhrase(list) ==
    list[Least({ i \in 1..Len(list) : Contains(Lower(job.title), list[i]) })]

\* C9: a title with a blocklisted senior-care phrase never yields SENIOR
\* nor EXECUTIVE: it yields ENTRY with the matched phrase when it also
\* contains an ENTRY title phrase, and otherwise MID with the marker
\* 'senior (care context)'.
C9_SeniorCareBlocklist ==
    (Analyzed /\ Rule_Blocklist) =>
        /\ title_level \notin { SENIOR, EXECUTIVE }
        /\ IF Rule_Entry
           THEN /\ title_level = ENTRY
                /\ title_match = Some(FirstPhrase(TITLE_SIGNALS_entry))
           ELSE /\ title_level = MID
                /\ title_match = Some(CareContextMarker)

\* 'Senior Living Community Coordinator' yields ENTRY via 'coordinator'.
C9_Witness ==
    /\ Analyzed
    /\ job.title = <<"S","e","n","i","o","r"," ","L","i","v","i","n","g"," ","C","o","m","m","u","n","i","t","y"," ","C","o","o","r","d","i","n","a","t","o","r">>
    /\ title_level = ENTRY
    /\ title_match = Some(<<"c","o","o","r","d","i","n","a","t","o","r">>)

\* The executive abbreviation rule fired: EXECUTIVE was returned with a
\* match that is no EXECUTIVE phrase (the two lists share no entry).
AbbreviationRuleFired ==
    /\ title_level = EXECUTIVE
    /\ title_match # None
    /\ \A i \in 1..Len(TITLE_SIGNALS_executive) :
           title_match[1] # TITLE_SIGNALS_executive[i]

\* The rule fires exactly when some abbreviation of the list is a whole
\* word of a title without blocklisted phrase, and then returns EXECUTIVE
\* with the first such abbreviation of the list.
AbbreviationRuleOver(list) ==
    (Analyzed /\ ~Rule_Blocklist) =>
        LET hits == { i \in 1..Len(list) : WholeWord(list[i]) }
        IN  IF hits # {}
            THEN /\ title_level = EXECUTIVE
                 /\ title_match = Some(list[Least(hits)])
            ELSE ~AbbreviationRuleFired

\* The abbreviations the specification lists.
ListedAbbreviations ==
    << <<"v","p">>, <<"c","t","o">>, <<"c","e","o">>, <<"c","o","o">>,
       <<"c","m","o">>, <<"c","i","o">>,
       <<"p","r","e","s","i","d","e","n","t">>,
       <<"p","a","r","t","n","e","r">>, <<"g","m">> >>

\* C10 (as claimed): the executive abbreviation rule fires exactly when the
\* title contains as a whole word one of vp, cto, ceo, coo, cmo, cio,
\* president, partner, gm, and no other abbreviation triggers it.
C10_ListedAbbreviationsOnly == AbbreviationRuleOver(ListedAbbreviations)

\* C10 (amended): the rule fires exactly when the title contains as a whole
\* word one of vp, cto, cfo, ceo, coo, cmo, cio, president, partner, gm.
C10_AbbreviationsWithCfo ==
    AbbreviationRuleOver(
        << <<"v","p">>, <<"c","t","o">>, <<"c","f","o">>, <<"c","e","o">>,
           <<"c","o","o">>, <<"c","m","o">>, <<"c","i","o">>,
           <<"p","r","e","s","i","d","e","n","t">>,
           <<"p","a","r","t","n","e","r">>, <<"g","m">> >>)

\* 'VP of Engineering' yields EXECUTIVE with 'vp'.
C10_Witness ==
    /\ Analyzed
    /\ job.title = <<"V","P"," ","o","f"," ","E","n","g","i","n","e","e","r","i","n","g">>
    /\ title_level = EXECUTIVE
    /\ title_match = Some(<<"v","p">>)

-----------------------------------------------------------------------------
(* Properties of classify_job_with_company on any arguments *)

\* A value of type ClassificationResult.
IsClassificationResult(r) ==
    /\ r.experience_level \in LevelSet
    /\ r.audience_tags # {}
    /\ r.audience_tags \subseteq { "genz", "mid_career", "senior", "executive" }
    /\ r.confidence \in 0..100

\* C21: on the documented domain (string title, string description, optional
\* integer salary bounds, optional string company), empty strings included,
\* no stage of classify_job or classify_job_with_company raises, classify_job
\* returns a ClassificationResult and so does classify_job_with_company.
C21_TotalOnDocumentedDomain ==
    Documented(job) =>
        /\ pc # "raised"
        /\ pc \in { "returned", "done" } => IsClassificationResult(frames[1].base_result)
        /\ pc = "done" => IsClassificationResult(frames[1].result)

\* The call on the empty title and the empty description, without salary
\* and company, has returned a ClassificationResult.
C21_Witness ==
    /\ job.title = Some(<< >>) /\ job.description = Some(<< >>)
    /\ job.salary_min = None /\ job.salary_max = None /\ job.company = None
    /\ pc = "done"
    /\ IsClassificationResult(frames[1].result)

-----------------------------------------------------------------------------
(* Properties of the scraper service *)

\* The coroutines inside the body of run_scrapers.
Running == { t \in DOMAIN tasks : InRun(t) }

\* C26: at most one execution of the body of run_scrapers is in progress
\* at any time, and it holds _scrape_lock: the scheduled run and the
\* manually triggered runs execute one after another; a run that waits for
\* the lock has done none of its scraper and save steps.
C26_OneRunAtATime ==
    /\ Cardinality(Running) <= 1
    /\ \A t \in DOMAIN tasks :
          /\ InRun(t) => scrape_lock.holder = t /\ is_running
          /\ tasks[t].pc = "waiting" => tasks[t].results = << >> /\ tasks[t].i = 0

\* A first manual run has returned; the scheduled run that waited for it
\* saves the jobs of its second scraper, while a second manual run, which
\* came when the lock had just been released, waits for its turn.
C26_Witness ==
    \E t, u, v \in DOMAIN tasks :
        /\ tasks[t].kind = "manual" /\ tasks[t].pc = "done"
        /\ tasks[u].kind = "scheduled" /\ tasks[u].pc = "save" /\ tasks[u].i = 2
        /\ tasks[v].kind = "manual" /\ tasks[v].pc = "waiting"
        /\ scrape_lock = [ holder |-> u, waiters |-> << v >> ]

\* C27: a single-source scrape (run_single_scraper, started by
\* POST /scrape/{source} after the 'Scrape already in progress' check) and
\* a full run (run_scrapers) are never in progress at the same time.
C27_SingleExcludesFullRun ==
    ~ \E t, u \in DOMAIN tasks : InSingle(t) /\ InRun(u)

\* C28: run_scrapers isolates the failures of its scrapers: whichever of
\* the enabled scrapers have their scrape() or save_jobs raise, the run
\* returns exactly one ScrapeResult per enabled scraper, in configuration
\* order, those of the failed scrapers with jobs_found = 0 and a non-empty
\* errors list, and stores the same list in last_results.
C28_FailuresIsolated ==
    tasks # << >> /\ tasks[1].kind = "scheduled" /\ tasks[1].pc = "done" =>
        LET results == tasks[1].results
        IN  /\ Len(results) = Len(Scrapers(enabled))
            /\ \A i \in 1..Len(results) :
                  /\ results[i].source = Scrapers(enabled)[i]
                  /\ i \in tasks[1].raised =>
                        results[i].jobs_found = 0 /\ results[i].errors # << >>
            /\ \A i, j \in 1..Len(JobSources) :
                  i < j /\ JobSources[i] \in enabled /\ JobSources[j] \in enabled =>
                      \E a, b \in 1..Len(results) :
                          /\ a < b
                          /\ results[a].source = JobSources[i]
                          /\ results[b].source = JobSources[j]
            /\ last_results = results

\* With all five sources enabled, the first and the fourth scraper raised
\* and the run returned five results, the last one with a job found and
\* added.
C28_Witness ==
    /\ tasks # << >> /\ tasks[1].kind = "scheduled" /\ tasks[1].pc = "done"
    /\ Len(Scrapers(enabled)) = 5
    /\ tasks[1].raised = { 1, 4 }
    /\ Len(tasks[1].results) = 5
    /\ tasks[1].results[1].errors # << >>
    /\ tasks[1].results[5].jobs_found = 1
    /\ tasks[1].results[5].jobs_added = 1
    /\ tasks[1].results[5].errors = << >>

\* C29: is_running is True exactly while an execution of run_scrapers is
\* inside the lock, and whenever it is True it becomes False again: the
\* run that set it returns or is left by an exception, provided each
\* scraper and database call returns or raises, and the step that ends the
\* run clears the flag.
C29_RunningIsCleared ==
    /\ [](is_running <=> Running # {})
    /\ is_running ~> ~is_running

\* A scheduled run has been cancelled while a scraper or the database was
\* awaited, a manual run has returned, and is_running is False.
C29_Witness ==
    /\ \E t \in DOMAIN tasks : tasks[t].kind = "scheduled" /\ tasks[t].pc = "cancelled"
    /\ \E t \in DOMAIN tasks : tasks[t].kind = "manual" /\ tasks[t].pc = "done"
                                  /\ tasks[t].raised # {}
    /\ ~is_running
    /\ scrape_lock.holder = 0

\* C30: after any sequence of save_jobs calls, interleaved ones included,
\* job_listings holds at most one row for each (source, sourceId), and no
\* job whose key was already in the table when it was written has been
\* left without its update.
C30_OneRowPerKey ==
    /\ \A id \in DOMAIN table : table[id] <= 1
    /\ \A t \in DOMAIN tasks :
          \A n \in 1..Len(tasks[t].raised) :
              tasks[t].raised[n] # "UniqueViolationError"

\* The first half of C30 on its own: no key has two rows.
C30_NoDuplicateRow == \A id \in DOMAIN table : table[id] <= 1

\* The second half of C30 on its own: no INSERT has been rejected for a key
\* that was in the table.
C30_NoRejectedInsert ==
    \A t \in DOMAIN tasks :
        \A n \in 1..Len(tasks[t].raised) : tasks[t].raised[n] # "UniqueViolationError"

\* What save_jobs does keep: a call counts each job it has gone through
\* exactly once, as added, as updated or as an error that was logged.
C30_RowsKeptAndCounted ==
    \A t \in DOMAIN tasks :
        tasks[t].pc # "new" =>
            tasks[t].added + tasks[t].updated + Len(tasks[t].raised)
                = IF tasks[t].pc = "done" THEN Len(tasks[t].jobs) ELSE tasks[t].i - 1

=============================================================================
